---- MODULE Spec2Model ----
(***************************************************************************)
(* A model of the MIPS interpreter of darknessmipsemu_v1.01_hdr.py: the    *)
(* COP0 register file, the CPU (MIPSCPU), the address space (Memory) and   *)
(* the driver threads of MIPSEMU (execution worker and render loop).       *)
(*                                                                         *)
(* Python integers are unbounded, and the program's addresses do not fit   *)
(* a 32-bit signed integer, so an integer v is held as the pair            *)
(* <<v \div 2^16, v % 2^16>>: the high part is any integer (negative for   *)
(* a negative v, above 65535 for a v of more than 32 bits), the low part   *)
(* is in 0..65535.                                                         *)
(***************************************************************************)
EXTENDS Integers, Sequences, FiniteSets, TLC

VARIABLES
    cpu,                \* the MIPSCPU object (with its COP0 register file)
    memory,             \* the Memory object
    emulation_running,  \* MIPSEMU.emulation_running
    rom_header,         \* MIPSEMU.rom_header (the fields the driver reads)
    current_rom,        \* MIPSEMU.current_rom: the path of the loaded image
    state_file,         \* the save-state file save_state wrote last
    workers,            \* the execution worker threads that were started
    render,             \* the render_loop callback: its position and snapshot
    trace,              \* history: one record per executed step()
    boundaries          \* history: engine states at the boundaries between steps

vars == <<cpu, memory, emulation_running, rom_header, current_rom,
          state_file, workers, render, trace, boundaries>>

(***************************************************************************)
(* Integers as pairs of 16-bit limbs.                                      *)
(***************************************************************************)
B16 == 2^16

W(h, l) == <<h, l>>

Norm(h, l) == <<h + (l \div B16), l % B16>>

Zero == W(0, 0)
One == W(0, 1)

Add(a, b) == Norm(a[1] + b[1], a[2] + b[2])
Sub(a, b) == Norm(a[1] - b[1], a[2] - b[2])
AddN(a, n) == Norm(a[1], a[2] + n)

\* v & 0xFFFFFFFF
Mask32(a) == <<a[1] % B16, a[2]>>

Lt(a, b) == a[1] < b[1] \/ (a[1] = b[1] /\ a[2] < b[2])
Le(a, b) == a = b \/ Lt(a, b)
InWindow(a, lo, hi) == Le(lo, a) /\ Lt(a, hi)

\* the value of a pair known to be small enough for a plain integer
ToInt(a) == a[1] * B16 + a[2]
FromInt(n) == Norm(0, n)

RECURSIVE BitAndN(_, _)
BitAndN(a, b) ==
    IF a = 0 \/ b = 0 THEN 0
    ELSE (a % 2) * (b % 2) + 2 * BitAndN(a \div 2, b \div 2)

RECURSIVE BitOrN(_, _)
BitOrN(a, b) ==
    IF a = 0 THEN b
    ELSE IF b = 0 THEN a
    ELSE (IF a % 2 = 1 \/ b % 2 = 1 THEN 1 ELSE 0) + 2 * BitOrN(a \div 2, b \div 2)

RECURSIVE BitXorN(_, _)
BitXorN(a, b) ==
    IF a = 0 THEN b
    ELSE IF b = 0 THEN a
    ELSE ((a + b) % 2) + 2 * BitXorN(a \div 2, b \div 2)

\* a & b, a | b, a ^ b for non-negative a, b
And(a, b) == <<BitAndN(a[1], b[1]), BitAndN(a[2], b[2])>>
Or(a, b) == <<BitOrN(a[1], b[1]), BitOrN(a[2], b[2])>>
Xor(a, b) == <<BitXorN(a[1], b[1]), BitXorN(a[2], b[2])>>
\* a & ~m for non-negative a, m
AndNot(a, m) == Sub(a, And(a, m))

\* v * 2 and v // 2 (Python's >> floors, also for a negative v)
Double(a) == Norm(2 * a[1], 2 * a[2])
Half(a) == <<a[1] \div 2, (a[2] \div 2) + (a[1] % 2) * (B16 \div 2)>>

\* (v << k) & 0xFFFFFFFF
RECURSIVE Shl32(_, _)
Shl32(a, k) ==
    IF k < 16 THEN Mask32(Norm((a[1] % B16) * (2 ^ k), a[2] * (2 ^ k)))
    ELSE Shl32(<<a[2], 0>>, k - 16)

\* v >> k (Python's >> floors, also for a negative v)
RECURSIVE Shr(_, _)
Shr(a, k) ==
    IF k < 16
    THEN <<a[1] \div (2 ^ k), (a[2] \div (2 ^ k)) + (a[1] % (2 ^ k)) * (2 ^ (16 - k))>>
    ELSE Shr(<<a[1] \div B16, a[1] % B16>>, k - 16)

\* v << 2, unmasked
Shl2(a) == Double(Double(a))

(***************************************************************************)
(* Sparse byte stores: a bytearray that starts all zero is the function    *)
(* from the offsets of its non-zero bytes to those bytes.                  *)
(***************************************************************************)
NoBytes == [k \in {} |-> 0]

Get(f, k) == IF k \in DOMAIN f THEN f[k] ELSE 0

Put(f, k, v) ==
    [x \in (DOMAIN f \cup {k}) \ (IF v = 0 THEN {k} ELSE {}) |->
        IF x = k THEN v ELSE f[x]]

\* struct.unpack('>I', buf[off:off+4])[0]
unpack_I(f, off) ==
    W(Get(f, off) * 256 + Get(f, off + 1), Get(f, off + 2) * 256 + Get(f, off + 3))

\* struct.pack_into('>I', buf, off, value), value in [0, 2^32)
pack_into_I(f, off, v) ==
    Put(Put(Put(Put(f, off, v[1] \div 256), off + 1, v[1] % 256),
            off + 2, v[2] \div 256), off + 3, v[2] % 256)

\* a bytes object (the ROM image) as a sequence of bytes, offset 0 first
SeqByte(s, off) == IF off + 1 \in DOMAIN s THEN s[off + 1] ELSE 0
SeqWord(s, off) ==
    W(SeqByte(s, off) * 256 + SeqByte(s, off + 1),
      SeqByte(s, off + 2) * 256 + SeqByte(s, off + 3))

(***************************************************************************)
(* Memory                                                                  *)
(***************************************************************************)
RDRAM_SIZE == 8 * 1024 * 1024

Memory_init ==
    [rdram |-> NoBytes, rdram_len |-> RDRAM_SIZE,
     rom |-> <<>>, rom_size |-> 0,
     mi_registers |-> NoBytes, vi_registers |-> NoBytes,
     ai_registers |-> NoBytes, pi_registers |-> NoBytes,
     save_type |-> "unset",
     eeprom |-> NoBytes, sram |-> NoBytes, flashram |-> NoBytes]

\* bytes.lower() of one byte
Lower(b) == IF b \in 65..90 THEN b + 32 ELSE b

\* pat in rom[:n].lower()
Contains(rom, n, pat) ==
    \E k \in 0..(n - Len(pat)) : \A j \in 1..Len(pat) : Lower(rom[k + j]) = pat[j]

\* Memory.detect_save_type: the save type after a ROM of this content
detect_save_type(m) ==
    IF Len(m.rom) < \h1000 THEN m.save_type
    ELSE LET n == IF Len(m.rom) > \h100000 THEN \h100000 ELSE Len(m.rom) IN
         IF Contains(m.rom, n, <<115, 114, 97, 109>>) THEN "SRAM"
         ELSE IF Contains(m.rom, n, <<101, 101, 112, 114, 111, 109>>) THEN "EEPROM"
         ELSE IF Contains(m.rom, n, <<102, 108, 97, 115, 104>>) THEN "FlashRAM"
         ELSE "None"

Memory_load_rom(m, rom_data) ==
    LET m1 == [m EXCEPT !.rom = rom_data, !.rom_size = Len(rom_data)]
    IN [m1 EXCEPT !.save_type = detect_save_type(m1)]

IsRdramAddr_NoMirror(addr) == Lt(addr, W(\h0080, 0))

\* an RDRAM window with a second mirror at 0x80000000
IsRdramAddr_Kseg0(addr) ==
    \/ Lt(addr, W(\h0080, 0))
    \/ InWindow(addr, W(\hA000, 0), W(\hA080, 0))
    \/ InWindow(addr, W(\h8000, 0), W(\h8080, 0))

IsRdramAddr(addr) ==
    Lt(addr, W(\h0080, 0)) \/ InWindow(addr, W(\hA000, 0), W(\hA080, 0))
IsRomAddr(addr) ==
    \/ InWindow(addr, W(\h1000, 0), W(\h1FBF, \hFFFF))
    \/ InWindow(addr, W(\hB000, 0), W(\hBFFF, \hFFFF))
IsSramAddr(addr) ==
    \/ InWindow(addr, W(\h0800, 0), W(\h0800, \h8000))
    \/ InWindow(addr, W(\hA800, 0), W(\hA800, \h8000))
IsIoAddr(addr) == InWindow(addr, W(\h0400, 0), W(\h0500, 0))

\* addr & 0x007FFFFF, addr & 0x0FFFFFFF, addr & 0x7FFF
RamOffset(addr) == (addr[1] % 128) * B16 + addr[2]
RomOffset(addr) == (addr[1] % 4096) * B16 + addr[2]
SramOffset(addr) == addr[2] % 32768

read_byte(m, a) ==
    LET addr == Mask32(a) IN
    IF IsRdramAddr(addr) THEN
        IF RamOffset(addr) < m.rdram_len THEN Get(m.rdram, RamOffset(addr)) ELSE 0
    ELSE IF IsRomAddr(addr) THEN
        IF m.rom # <<>> /\ RomOffset(addr) < m.rom_size
        THEN SeqByte(m.rom, RomOffset(addr)) ELSE 0
    ELSE IF IsSramAddr(addr) THEN Get(m.sram, SramOffset(addr))
    ELSE 0

read_half(m, a) == read_byte(m, a) * 256 + read_byte(m, AddN(a, 1))

read_io(m, addr) ==
    IF InWindow(addr, W(\h0430, 0), W(\h0430, \h20))
    THEN unpack_I(m.mi_registers, ((addr[2] \div 4) % 8) * 4)
    ELSE IF InWindow(addr, W(\h0440, 0), W(\h0440, \h40))
    THEN unpack_I(m.vi_registers, ((addr[2] \div 4) % 16) * 4)
    ELSE IF InWindow(addr, W(\h0450, 0), W(\h0450, \h20))
    THEN unpack_I(m.ai_registers, ((addr[2] \div 4) % 8) * 4)
    ELSE IF InWindow(addr, W(\h0460, 0), W(\h0460, \h40))
    THEN unpack_I(m.pi_registers, ((addr[2] \div 4) % 16) * 4)
    ELSE Zero

read_word(m, a) ==
    LET addr == Mask32(a) IN
    IF IsRdramAddr(addr) THEN
        IF RamOffset(addr) < m.rdram_len - 3
        THEN unpack_I(m.rdram, RamOffset(addr)) ELSE Zero
    ELSE IF IsRomAddr(addr) THEN
        IF m.rom # <<>> /\ RomOffset(addr) < m.rom_size - 3
        THEN SeqWord(m.rom, RomOffset(addr)) ELSE Zero
    ELSE IF IsIoAddr(addr) THEN read_io(m, addr)
    ELSE Zero

\* write_byte with a branch for the ROM windows that stores into the image
write_byte_IntoRom(m, a, value) ==
    LET addr == Mask32(a) IN
    IF IsRomAddr(addr) /\ RomOffset(addr) < m.rom_size
    THEN [m EXCEPT !.rom[RomOffset(addr) + 1] = value % 256]
    ELSE m

\* write_byte without the window test: every address lands in RAM
write_byte_NoWindowTest(m, a, value) ==
    [m EXCEPT !.rdram = Put(@, RamOffset(Mask32(a)), value % 256)]

write_byte(m, a, value) ==
    LET addr == Mask32(a)
        v == value % 256
    IN
    IF IsRdramAddr(addr) THEN
        IF RamOffset(addr) < m.rdram_len
        THEN [m EXCEPT !.rdram = Put(@, RamOffset(addr), v)] ELSE m
    ELSE IF IsSramAddr(addr)
    THEN [m EXCEPT !.sram = Put(@, SramOffset(addr), v)]
    ELSE m

write_half(m, a, value) ==
    LET v == value % B16 IN
    write_byte(write_byte(m, a, (v \div 256) % 256), AddN(a, 1), v % 256)

write_io(m, addr, value) ==
    IF InWindow(addr, W(\h0430, 0), W(\h0430, \h20))
    THEN [m EXCEPT !.mi_registers = pack_into_I(@, ((addr[2] \div 4) % 8) * 4, value)]
    ELSE IF InWindow(addr, W(\h0440, 0), W(\h0440, \h40))
    THEN [m EXCEPT !.vi_registers = pack_into_I(@, ((addr[2] \div 4) % 16) * 4, value)]
    ELSE IF InWindow(addr, W(\h0450, 0), W(\h0450, \h20))
    THEN [m EXCEPT !.ai_registers = pack_into_I(@, ((addr[2] \div 4) % 8) * 4, value)]
    ELSE IF InWindow(addr, W(\h0460, 0), W(\h0460, \h40))
    THEN [m EXCEPT !.pi_registers = pack_into_I(@, ((addr[2] \div 4) % 16) * 4, value)]
    ELSE m

write_word(m, a, value) ==
    LET addr == Mask32(a)
        v == Mask32(value)
    IN
    IF IsRdramAddr(addr) THEN
        IF RamOffset(addr) < m.rdram_len - 3
        THEN [m EXCEPT !.rdram = pack_into_I(@, RamOffset(addr), v)] ELSE m
    ELSE IF IsIoAddr(addr) THEN write_io(m, addr, v)
    ELSE m

(***************************************************************************)
(* Wide arithmetic for MULT and DIV                                        *)
(***************************************************************************)
Neg(a) == Sub(Zero, a)
IsNeg(a) == a[1] < 0
Abs(a) == IF IsNeg(a) THEN Neg(a) ELSE a

\* the six base-256 digits (least significant first) of a non-negative pair
Bytes6(a) ==
    <<a[2] % 256, a[2] \div 256,
      a[1] % 256, (a[1] \div 256) % 256,
      (a[1] \div B16) % 256, (a[1] \div (B16 * 256)) % 256>>

\* the sum of the digit products x[i] * y[j] with i + j = k (k counted from 0)
RECURSIVE Column(_, _, _, _)
Column(x, y, k, i) ==
    IF i > 6 THEN 0
    ELSE (IF k + 2 - i \in 1..6 THEN x[i] * y[k + 2 - i] ELSE 0)
         + Column(x, y, k, i + 1)

\* digits k..7 of the product of x and y, given the carry into digit k
RECURSIVE MulDigits(_, _, _, _)
MulDigits(x, y, k, carry) ==
    IF k > 7 THEN <<>>
    ELSE LET t == Column(x, y, k, 1) + carry
         IN <<t % 256>> \o MulDigits(x, y, k + 1, t \div 256)

\* (a * b) mod 2^64 for non-negative a, b, as [hi, lo] of 32-bit pairs
MulMag(a, b) ==
    LET d == MulDigits(Bytes6(a), Bytes6(b), 0, 0)
    IN [lo |-> W(d[4] * 256 + d[3], d[2] * 256 + d[1]),
        hi |-> W(d[8] * 256 + d[7], d[6] * 256 + d[5])]

\* two's complement negation of a 64-bit [hi, lo]
Neg64(p) ==
    IF p.lo = Zero
    THEN [lo |-> Zero, hi |-> Mask32(Neg(p.hi))]
    ELSE [lo |-> Mask32(Neg(p.lo)), hi |-> Mask32(Sub(W(B16 - 1, B16 - 1), p.hi))]

\* result & 0xFFFFFFFF and (result >> 32) & 0xFFFFFFFF of result = a * b
Mul64(a, b) ==
    LET p == MulMag(Abs(a), Abs(b))
    IN IF IsNeg(a) # IsNeg(b) THEN Neg64(p) ELSE p

\* hexadecimal digit k (0 = least significant) of a non-negative 32-bit pair
Nibble(a, k) ==
    IF k < 4 THEN (a[2] \div (16 ^ k)) % 16 ELSE (a[1] \div (16 ^ (k - 4))) % 16

MulN(a, n) == Norm(a[1] * n, a[2] * n)

\* divmod of (a with its k lowest hexadecimal digits dropped) by positive b
RECURSIVE DivDigits(_, _, _)
DivDigits(a, b, k) ==
    IF k = 8 THEN [q |-> Zero, r |-> Zero]
    ELSE LET d == DivDigits(a, b, k + 1)
             x == AddN(MulN(d.r, 16), Nibble(a, k))
             n == CHOOSE n \in 0..15 : Le(MulN(b, n), x) /\ Lt(x, MulN(b, n + 1))
         IN [q |-> AddN(MulN(d.q, 16), n), r |-> Sub(x, MulN(b, n))]

\* divmod of non-negative a by positive b
DivModN(a, b) == DivDigits(a, b, 0)

\* Python's a // b and a % b (floor division), b # 0
FloorDivMod(a, b) ==
    LET d == DivModN(Abs(a), Abs(b))
    IN IF IsNeg(a) = IsNeg(b)
       THEN [q |-> d.q, r |-> IF IsNeg(b) THEN Neg(d.r) ELSE d.r]
       ELSE IF d.r = Zero THEN [q |-> Neg(d.q), r |-> Zero]
       ELSE [q |-> Sub(Neg(d.q), One), r |-> Add(b, IF IsNeg(b) THEN d.r ELSE Neg(d.r))]

(***************************************************************************)
(* COP0                                                                    *)
(***************************************************************************)
COP0_RANDOM == 1
COP0_COUNT == 9
COP0_COMPARE == 11
COP0_STATUS == 12
COP0_CAUSE == 13
COP0_EPC == 14
COP0_PRID == 15

\* COP0.__init__: the register file of a new COP0
COP0_init ==
    [r \in 0..31 |->
        IF r = COP0_PRID THEN W(0, \h0B00)
        ELSE IF r = COP0_STATUS THEN W(\h3400, 0)
        ELSE Zero]

COP0_read(regs, reg) == regs[reg % 32]

\* COP0.write that stores Compare like any other register
COP0_write_KeepsTimerBit(regs, reg0, value) ==
    LET reg == reg0 % 32 IN
    IF reg = 0 THEN [regs EXCEPT ![reg] = W(0, value[2] % 64)]
    ELSE IF reg = COP0_RANDOM THEN regs
    ELSE [regs EXCEPT ![reg] = value]

\* COP0.write without the branch that ignores Random
COP0_write_RandomWritable(regs, reg0, value) ==
    LET reg == reg0 % 32 IN
    IF reg = 0 THEN [regs EXCEPT ![reg] = W(0, value[2] % 64)]
    ELSE IF reg = COP0_COMPARE
    THEN [regs EXCEPT ![reg] = value,
                      ![COP0_CAUSE] = AndNot(regs[COP0_CAUSE], W(0, \h8000))]
    ELSE [regs EXCEPT ![reg] = value]

COP0_write(regs, reg0, value) ==
    LET reg == reg0 % 32 IN
    IF reg = 0 THEN [regs EXCEPT ![reg] = W(0, value[2] % 64)]
    ELSE IF reg = COP0_RANDOM THEN regs
    ELSE IF reg = COP0_COMPARE
    THEN [regs EXCEPT ![reg] = value,
                      ![COP0_CAUSE] = AndNot(regs[COP0_CAUSE], W(0, \h8000))]
    ELSE [regs EXCEPT ![reg] = value]

(***************************************************************************)
(* MIPSCPU                                                                 *)
(***************************************************************************)
BOOT_PC == W(\hA400, \h0040)
EXCEPTION_VECTOR == W(\h8000, \h0180)

\* MIPSCPU.__init__
MIPSCPU_init ==
    [pc |-> BOOT_PC, next_pc |-> AddN(BOOT_PC, 4),
     registers |-> [r \in 0..31 |-> Zero],
     hi |-> Zero, lo |-> Zero,
     cop0 |-> COP0_init,
     running |-> FALSE,
     instructions_executed |-> 0, cycles |-> 0,
     branch_delay |-> FALSE, delay_slot_pc |-> Zero,
     load_delay |-> FALSE, load_reg |-> 0, load_value |-> Zero,
     llbit |-> FALSE, lladdr |-> Zero,
     exception_pending |-> FALSE, exception_code |-> 0]

\* reset without its last line, self.cop0 = COP0()
reset_KeepsCOP0(c) ==
    [c EXCEPT !.pc = BOOT_PC, !.next_pc = AddN(BOOT_PC, 4),
              !.registers = [r \in 0..31 |-> Zero],
              !.hi = Zero, !.lo = Zero,
              !.instructions_executed = 0, !.cycles = 0,
              !.branch_delay = FALSE, !.load_delay = FALSE,
              !.llbit = FALSE, !.exception_pending = FALSE]

reset(c) ==
    [c EXCEPT !.pc = BOOT_PC, !.next_pc = AddN(BOOT_PC, 4),
              !.registers = [r \in 0..31 |-> Zero],
              !.hi = Zero, !.lo = Zero,
              !.instructions_executed = 0, !.cycles = 0,
              !.branch_delay = FALSE, !.load_delay = FALSE,
              !.llbit = FALSE, !.exception_pending = FALSE,
              !.cop0 = COP0_init]

\* sign_extend_16 that extends with zeros
sign_extend_16_Zeros(value) == W(0, value)

sign_extend_16(value) ==
    IF (value \div \h8000) % 2 = 1 THEN W(\hFFFF, value) ELSE W(0, value)

signed_word(value) ==
    IF (value[1] \div \h8000) % 2 = 1 THEN Sub(value, W(B16, 0)) ELSE value

do_branch(c, target) ==
    [c EXCEPT !.delay_slot_pc = Mask32(target), !.branch_delay = TRUE]

\* trigger_exception that treats the exception as a fault and halts
trigger_exception_Halts(c, code) ==
    LET regs1 == COP0_write(c.cop0, COP0_EPC, c.pc)
        cause == COP0_read(regs1, COP0_CAUSE)
        cause1 == Or(AndNot(cause, W(0, \h7C)), W(0, (code % 32) * 4))
        regs2 == COP0_write(regs1, COP0_CAUSE, cause1)
    IN [c EXCEPT !.exception_pending = TRUE, !.exception_code = code,
                 !.cop0 = regs2, !.running = FALSE,
                 !.pc = EXCEPTION_VECTOR, !.next_pc = AddN(EXCEPTION_VECTOR, 4)]

trigger_exception(c, code) ==
    LET regs1 == COP0_write(c.cop0, COP0_EPC, c.pc)
        cause == COP0_read(regs1, COP0_CAUSE)
        cause1 == Or(AndNot(cause, W(0, \h7C)), W(0, (code % 32) * 4))
        regs2 == COP0_write(regs1, COP0_CAUSE, cause1)
    IN [c EXCEPT !.exception_pending = TRUE, !.exception_code = code,
                 !.cop0 = regs2,
                 !.pc = EXCEPTION_VECTOR, !.next_pc = AddN(EXCEPTION_VECTOR, 4)]

\* instruction fields
Opcode(i) == i[1] \div 1024
Rs(i) == (i[1] \div 32) % 32
Rt(i) == i[1] % 32
Rd(i) == i[2] \div 2048
Shamt(i) == (i[2] \div 64) % 32
Funct(i) == i[2] % 64
Imm(i) == i[2]

\* the executing machine: s.cpu is the MIPSCPU, s.mem the Memory it reads
R(s, r) == s.cpu.registers[r]
SetReg(s, r, v) == [s EXCEPT !.cpu.registers[r] = v]
SetHiLo(s, h, l) == [s EXCEPT !.cpu.hi = h, !.cpu.lo = l]
Branch(s, target) == [s EXCEPT !.cpu = do_branch(@, target)]

\* (registers[rs] + sign_extend_16(imm)) & 0xFFFFFFFF
EffAddr(s, i) == Mask32(Add(R(s, Rs(i)), sign_extend_16(Imm(i))))
\* next_pc + (sign_extend_16(imm) << 2)
BranchTarget(s, i) == Add(s.cpu.next_pc, Shl2(sign_extend_16(Imm(i))))
\* (pc & 0xF0000000) | ((instr & 0x3FFFFFF) << 2)
JumpTarget(s, i) ==
    Or(W(((s.cpu.pc[1] % B16) \div 4096) * 4096, 0), Shl2(W(i[1] % 1024, i[2])))

Op_J(s, i) == Branch(s, JumpTarget(s, i))
Op_JAL(s, i) == Branch(SetReg(s, 31, AddN(s.cpu.next_pc, 4)), JumpTarget(s, i))
Op_BEQ(s, i) ==
    IF R(s, Rs(i)) = R(s, Rt(i)) THEN Branch(s, BranchTarget(s, i)) ELSE s
Op_BNE(s, i) ==
    IF R(s, Rs(i)) # R(s, Rt(i)) THEN Branch(s, BranchTarget(s, i)) ELSE s
Op_BLEZ(s, i) ==
    IF Le(signed_word(R(s, Rs(i))), Zero) THEN Branch(s, BranchTarget(s, i)) ELSE s
Op_BGTZ(s, i) ==
    IF Lt(Zero, signed_word(R(s, Rs(i)))) THEN Branch(s, BranchTarget(s, i)) ELSE s

\* ADDI, ADDIU, DADDI, DADDIU
Op_ADDI(s, i) ==
    SetReg(s, Rt(i), Mask32(Add(R(s, Rs(i)), sign_extend_16(Imm(i)))))
Op_SLTI(s, i) ==
    SetReg(s, Rt(i),
        IF Lt(signed_word(R(s, Rs(i))), sign_extend_16(Imm(i))) THEN One ELSE Zero)
Op_SLTIU(s, i) ==
    SetReg(s, Rt(i),
        IF Lt(R(s, Rs(i)), Mask32(sign_extend_16(Imm(i)))) THEN One ELSE Zero)
Op_ANDI(s, i) == SetReg(s, Rt(i), And(R(s, Rs(i)), W(0, Imm(i))))
Op_ORI(s, i) == SetReg(s, Rt(i), Or(R(s, Rs(i)), W(0, Imm(i))))
Op_XORI(s, i) == SetReg(s, Rt(i), Xor(R(s, Rs(i)), W(0, Imm(i))))
Op_LUI(s, i) == SetReg(s, Rt(i), W(Imm(i), 0))

Op_LB(s, i) ==
    LET value == read_byte(s.mem, EffAddr(s, i))
    IN SetReg(s, Rt(i),
           IF value >= 128 THEN W(\hFFFF, \hFF00 + value) ELSE W(0, value))
Op_LH(s, i) ==
    LET value == read_half(s.mem, EffAddr(s, i))
    IN SetReg(s, Rt(i), IF value >= \h8000 THEN W(\hFFFF, value) ELSE W(0, value))
\* LW, LWU
Op_LW(s, i) == SetReg(s, Rt(i), read_word(s.mem, EffAddr(s, i)))
Op_LBU(s, i) == SetReg(s, Rt(i), W(0, read_byte(s.mem, EffAddr(s, i))))
Op_LHU(s, i) == SetReg(s, Rt(i), W(0, read_half(s.mem, EffAddr(s, i))))
Op_LWR(s, i) ==
    LET addr == EffAddr(s, i)
        shift == (addr[2] % 4) * 8
        word == read_word(s.mem, W(addr[1], addr[2] - (addr[2] % 4)))
        mask == Sub(Shl32(One, shift), One)
    IN SetReg(s, Rt(i), Or(AndNot(R(s, Rt(i)), mask), And(word, mask)))

Op_SB(s, i) ==
    [s EXCEPT !.mem = write_byte(@, EffAddr(s, i), R(s, Rt(i))[2] % 256)]
Op_SH(s, i) == [s EXCEPT !.mem = write_half(@, EffAddr(s, i), R(s, Rt(i))[2])]
Op_SW(s, i) == [s EXCEPT !.mem = write_word(@, EffAddr(s, i), R(s, Rt(i)))]

Op_LL(s, i) ==
    LET addr == EffAddr(s, i)
    IN [SetReg(s, Rt(i), read_word(s.mem, addr))
           EXCEPT !.cpu.llbit = TRUE, !.cpu.lladdr = addr]

\* SC without its final llbit = False
Op_SC_LeavesLink(s, i) ==
    LET addr == EffAddr(s, i)
    IN IF s.cpu.llbit /\ addr = s.cpu.lladdr
       THEN SetReg([s EXCEPT !.mem = write_word(@, addr, R(s, Rt(i)))],
                   Rt(i), One)
       ELSE SetReg(s, Rt(i), Zero)

\* SC that stores whether or not the link holds
Op_SC_AlwaysStores(s, i) ==
    LET addr == EffAddr(s, i)
        s1 == IF s.cpu.llbit /\ addr = s.cpu.lladdr
              THEN SetReg([s EXCEPT !.mem = write_word(@, addr, R(s, Rt(i)))],
                          Rt(i), One)
              ELSE SetReg([s EXCEPT !.mem = write_word(@, addr, R(s, Rt(i)))],
                          Rt(i), Zero)
    IN [s1 EXCEPT !.cpu.llbit = FALSE]

Op_SC(s, i) ==
    LET addr == EffAddr(s, i)
        s1 == IF s.cpu.llbit /\ addr = s.cpu.lladdr
              THEN SetReg([s EXCEPT !.mem = write_word(@, addr, R(s, Rt(i)))],
                          Rt(i), One)
              ELSE SetReg(s, Rt(i), Zero)
    IN [s1 EXCEPT !.cpu.llbit = FALSE]

\* SPECIAL: shifts.  SLL/DSLL, SRL/DSRL, SRA/DSRA take the count from shamt;
\* the V forms from registers[rs] & 0x1F (& 0x3F for the D forms);
\* DSLL32, DSRL32, DSRA32 shift by shamt + 32.
ShiftLeft(s, i, k) == SetReg(s, Rd(i), Shl32(R(s, Rt(i)), k))
ShiftRight(s, i, k) == SetReg(s, Rd(i), Mask32(Shr(R(s, Rt(i)), k)))
ShiftRightArith(s, i, k) ==
    SetReg(s, Rd(i), Mask32(Shr(signed_word(R(s, Rt(i))), k)))

Op_JR(s, i) == Branch(s, R(s, Rs(i)))
Op_JALR(s, i) ==
    LET target == R(s, Rs(i))
    IN Branch(SetReg(s, Rd(i), AddN(s.cpu.next_pc, 4)), target)

Op_SYSCALL(s, i) == [s EXCEPT !.cpu = trigger_exception(@, 8)]
Op_BREAK(s, i) == [s EXCEPT !.cpu = trigger_exception(@, 9)]

\* MULT that multiplies the operands as unsigned values
Op_MULT_Unsigned(s, i) ==
    LET p == Mul64(R(s, Rs(i)), R(s, Rt(i)))
    IN SetHiLo(s, p.hi, p.lo)

\* MULT, DMULT
Op_MULT(s, i) ==
    LET p == Mul64(signed_word(R(s, Rs(i))), signed_word(R(s, Rt(i))))
    IN SetHiLo(s, p.hi, p.lo)
\* MULTU, DMULTU
Op_MULTU(s, i) ==
    LET p == Mul64(R(s, Rs(i)), R(s, Rt(i)))
    IN SetHiLo(s, p.hi, p.lo)
\* DIV that clears HI and LO when the divisor is 0
Op_DIV_ClearsOnZero(s, i) ==
    LET a == signed_word(R(s, Rs(i)))
        b == signed_word(R(s, Rt(i)))
        d == FloorDivMod(a, b)
    IN IF b # Zero THEN SetHiLo(s, Mask32(d.r), Mask32(d.q))
       ELSE SetHiLo(s, Zero, Zero)

\* DIV, DDIV
Op_DIV(s, i) ==
    LET a == signed_word(R(s, Rs(i)))
        b == signed_word(R(s, Rt(i)))
        d == FloorDivMod(a, b)
    IN IF b # Zero THEN SetHiLo(s, Mask32(d.r), Mask32(d.q)) ELSE s
\* DIVU, DDIVU
Op_DIVU(s, i) ==
    LET d == FloorDivMod(R(s, Rs(i)), R(s, Rt(i)))
    IN IF R(s, Rt(i)) # Zero THEN SetHiLo(s, Mask32(d.r), Mask32(d.q)) ELSE s

\* ADD, ADDU, DADD, DADDU
Op_ADD(s, i) == SetReg(s, Rd(i), Mask32(Add(R(s, Rs(i)), R(s, Rt(i)))))
\* SUB, SUBU, DSUB, DSUBU
Op_SUB(s, i) == SetReg(s, Rd(i), Mask32(Sub(R(s, Rs(i)), R(s, Rt(i)))))
Op_NOR(s, i) ==
    SetReg(s, Rd(i),
        Sub(W(B16 - 1, B16 - 1), Mask32(Or(R(s, Rs(i)), R(s, Rt(i))))))
Op_SLT(s, i) ==
    SetReg(s, Rd(i),
        IF Lt(signed_word(R(s, Rs(i))), signed_word(R(s, Rt(i))))
        THEN One ELSE Zero)
Op_SLTU(s, i) ==
    SetReg(s, Rd(i), IF Lt(R(s, Rs(i)), R(s, Rt(i))) THEN One ELSE Zero)

execute_special(s, i) ==
    LET funct == Funct(i)
        shamt == Shamt(i)
        rsv == R(s, Rs(i))
        s1 ==
          CASE funct = \h00 -> ShiftLeft(s, i, shamt)
            [] funct = \h02 -> ShiftRight(s, i, shamt)
            [] funct = \h03 -> ShiftRightArith(s, i, shamt)
            [] funct = \h04 -> ShiftLeft(s, i, rsv[2] % 32)
            [] funct = \h06 -> ShiftRight(s, i, rsv[2] % 32)
            [] funct = \h07 -> ShiftRightArith(s, i, rsv[2] % 32)
            [] funct = \h08 -> Op_JR(s, i)
            [] funct = \h09 -> Op_JALR(s, i)
            [] funct = \h0C -> Op_SYSCALL(s, i)
            [] funct = \h0D -> Op_BREAK(s, i)
            [] funct = \h0F -> s
            [] funct = \h10 -> SetReg(s, Rd(i), s.cpu.hi)
            [] funct = \h11 -> [s EXCEPT !.cpu.hi = rsv]
            [] funct = \h12 -> SetReg(s, Rd(i), s.cpu.lo)
            [] funct = \h13 -> [s EXCEPT !.cpu.lo = rsv]
            [] funct = \h14 -> ShiftLeft(s, i, rsv[2] % 64)
            [] funct = \h16 -> ShiftRight(s, i, rsv[2] % 64)
            [] funct = \h17 -> ShiftRightArith(s, i, rsv[2] % 64)
            [] funct = \h18 -> Op_MULT(s, i)
            [] funct = \h19 -> Op_MULTU(s, i)
            [] funct = \h1A -> Op_DIV(s, i)
            [] funct = \h1B -> Op_DIVU(s, i)
            [] funct = \h1C -> Op_MULT(s, i)
            [] funct = \h1D -> Op_MULTU(s, i)
            [] funct = \h1E -> Op_DIV(s, i)
            [] funct = \h1F -> Op_DIVU(s, i)
            [] funct \in {\h20, \h21, \h2C, \h2D} -> Op_ADD(s, i)
            [] funct \in {\h22, \h23, \h2E, \h2F} -> Op_SUB(s, i)
            [] funct = \h24 -> SetReg(s, Rd(i), And(rsv, R(s, Rt(i))))
            [] funct = \h25 -> SetReg(s, Rd(i), Or(rsv, R(s, Rt(i))))
            [] funct = \h26 -> SetReg(s, Rd(i), Xor(rsv, R(s, Rt(i))))
            [] funct = \h27 -> Op_NOR(s, i)
            [] funct = \h2A -> Op_SLT(s, i)
            [] funct = \h2B -> Op_SLTU(s, i)
            [] funct = \h38 -> ShiftLeft(s, i, shamt)
            [] funct = \h3A -> ShiftRight(s, i, shamt)
            [] funct = \h3B -> ShiftRightArith(s, i, shamt)
            [] funct = \h3C -> ShiftLeft(s, i, shamt + 32)
            [] funct = \h3E -> ShiftRight(s, i, shamt + 32)
            [] funct = \h3F -> ShiftRightArith(s, i, shamt + 32)
            [] OTHER -> s
    IN SetReg(s1, 0, Zero)

execute_regimm(s, i) ==
    LET rsv == signed_word(R(s, Rs(i)))
        rt == Rt(i)
        link == SetReg(s, 31, AddN(s.cpu.next_pc, 4))
    IN CASE rt = \h00 -> IF IsNeg(rsv) THEN Branch(s, BranchTarget(s, i)) ELSE s
         [] rt = \h01 -> IF ~IsNeg(rsv) THEN Branch(s, BranchTarget(s, i)) ELSE s
         [] rt = \h10 -> IF IsNeg(rsv) THEN Branch(link, BranchTarget(s, i)) ELSE s
         [] rt = \h11 -> IF ~IsNeg(rsv) THEN Branch(link, BranchTarget(s, i)) ELSE s
         [] OTHER -> s

Op_ERET(s, i) ==
    LET epc == COP0_read(s.cpu.cop0, COP0_EPC)
        status == COP0_read(s.cpu.cop0, COP0_STATUS)
    IN [s EXCEPT !.cpu.pc = epc, !.cpu.next_pc = AddN(epc, 4),
                 !.cpu.cop0 = COP0_write(@, COP0_STATUS, AndNot(status, W(0, 2)))]

execute_cop0(s, i) ==
    LET rs == Rs(i) IN
    IF rs = \h00 THEN SetReg(s, Rt(i), COP0_read(s.cpu.cop0, Rd(i)))
    ELSE IF rs = \h04
    THEN [s EXCEPT !.cpu.cop0 = COP0_write(@, Rd(i), R(s, Rt(i)))]
    ELSE IF rs = \h10 /\ Funct(i) = \h18 THEN Op_ERET(s, i)
    ELSE s

execute_cop1(s, i) == s

\* the opcode chain of execute_instruction
Dispatch(s, i) ==
    LET opcode == Opcode(i)
    IN    CASE opcode = \h00 -> execute_special(s, i)
            [] opcode = \h01 -> execute_regimm(s, i)
            [] opcode = \h10 -> execute_cop0(s, i)
            [] opcode = \h11 -> execute_cop1(s, i)
            [] opcode = \h02 -> Op_J(s, i)
            [] opcode = \h03 -> Op_JAL(s, i)
            [] opcode = \h04 -> Op_BEQ(s, i)
            [] opcode = \h05 -> Op_BNE(s, i)
            [] opcode = \h06 -> Op_BLEZ(s, i)
            [] opcode = \h07 -> Op_BGTZ(s, i)
            [] opcode \in {\h08, \h09, \h18, \h19} -> Op_ADDI(s, i)
            [] opcode = \h0A -> Op_SLTI(s, i)
            [] opcode = \h0B -> Op_SLTIU(s, i)
            [] opcode = \h0C -> Op_ANDI(s, i)
            [] opcode = \h0D -> Op_ORI(s, i)
            [] opcode = \h0E -> Op_XORI(s, i)
            [] opcode = \h0F -> Op_LUI(s, i)
            [] opcode = \h20 -> Op_LB(s, i)
            [] opcode = \h21 -> Op_LH(s, i)
            [] opcode \in {\h23, \h27} -> Op_LW(s, i)
            [] opcode = \h24 -> Op_LBU(s, i)
            [] opcode = \h25 -> Op_LHU(s, i)
            [] opcode = \h26 -> Op_LWR(s, i)
            [] opcode = \h28 -> Op_SB(s, i)
            [] opcode = \h29 -> Op_SH(s, i)
            [] opcode = \h2B -> Op_SW(s, i)
            [] opcode = \h30 -> Op_LL(s, i)
            [] opcode = \h38 -> Op_SC(s, i)
            [] OTHER -> s

\* execute_instruction without its final registers[0] = 0
execute_instruction_KeepR0(s, i) == Dispatch(s, i)

execute_instruction(s, i) == SetReg(Dispatch(s, i), 0, Zero)

(***************************************************************************)
(* step(), in the four parts a concurrent reader can see between           *)
(***************************************************************************)
\* the load-delay commit, the fetch and the execution of the instruction
StepExecute(s) ==
    LET s1 == IF s.cpu.load_delay
              THEN [SetReg(s, s.cpu.load_reg, s.cpu.load_value)
                       EXCEPT !.cpu.load_delay = FALSE]
              ELSE s
    IN CHOOSE r \in { execute_instruction(s1, instruction) :
                         instruction \in {read_word(s1.mem, s1.cpu.pc)} } : TRUE

\* "Update PC"
StepUpdatePC(c) ==
    LET pc == IF c.branch_delay THEN c.delay_slot_pc ELSE c.next_pc
    IN [c EXCEPT !.pc = pc, !.branch_delay = FALSE, !.next_pc = AddN(pc, 4)]

StepCount(c) ==
    [c EXCEPT !.instructions_executed = @ + 1, !.cycles = @ + 1]

\* the timer of a step() that takes the interrupt on a compare match
StepTimer_Vectors(c) ==
    LET regs1 == IF c.cycles % 2 = 0
                 THEN COP0_write(c.cop0, COP0_COUNT,
                          Mask32(AddN(COP0_read(c.cop0, COP0_COUNT), 1)))
                 ELSE c.cop0
    IN IF COP0_read(regs1, COP0_COUNT) = COP0_read(regs1, COP0_COMPARE)
       THEN trigger_exception(
                [c EXCEPT !.cop0 = [regs1 EXCEPT ![COP0_CAUSE] = Or(@, W(0, \h8000))]],
                0)
       ELSE [c EXCEPT !.cop0 = regs1]

\* the timer of a step() that increments COUNT on every cycle
StepTimer_EveryCycle(c) ==
    LET regs1 == COP0_write(c.cop0, COP0_COUNT,
                     Mask32(AddN(COP0_read(c.cop0, COP0_COUNT), 1)))
        regs2 == IF COP0_read(regs1, COP0_COUNT) = COP0_read(regs1, COP0_COMPARE)
                 THEN [regs1 EXCEPT ![COP0_CAUSE] = Or(@, W(0, \h8000))]
                 ELSE regs1
    IN [c EXCEPT !.cop0 = regs2]

\* the COUNT increment on every other cycle and the timer check
StepTimer(c) ==
    LET regs1 == IF c.cycles % 2 = 0
                 THEN COP0_write(c.cop0, COP0_COUNT,
                          Mask32(AddN(COP0_read(c.cop0, COP0_COUNT), 1)))
                 ELSE c.cop0
        regs2 == IF COP0_read(regs1, COP0_COUNT) = COP0_read(regs1, COP0_COMPARE)
                 THEN [regs1 EXCEPT ![COP0_CAUSE] = Or(@, W(0, \h8000))]
                 ELSE regs1
    IN [c EXCEPT !.cop0 = regs2]

step(s) ==
    IF ~s.cpu.running THEN s
    ELSE LET s1 == StepExecute(s)
         IN [s1 EXCEPT !.cpu = StepTimer(StepCount(StepUpdatePC(@)))]

(***************************************************************************)
(* Cartridge images and instruction words used as inputs                   *)
(***************************************************************************)
ProgLen == 1        \* instruction words of the image that are chosen freely
MaxSteps == 8       \* step() calls in one behaviour
MaxThreadSteps == 1 \* step() calls in one behaviour of the threaded emulator
MaxRenders == 1     \* render_loop callbacks run in one behaviour
MaxResets == 1      \* reset_emulation calls in one behaviour
MaxStarts == 2      \* start_emulation calls in one behaviour

EncI(op, rs, rt, imm) == W(op * 1024 + rs * 32 + rt, imm)
EncR(rs, rt, rd, shamt, funct) == W(rs * 32 + rt, rd * 2048 + shamt * 64 + funct)
EncJ(op, f) == W(op * 1024 + (f \div B16), f % B16)
EncCop0(rs, rt, rd, funct) == W(16 * 1024 + rs * 32 + rt, rd * 2048 + funct)

WordBytes(w) == <<w[1] \div 256, w[1] % 256, w[2] \div 256, w[2] % 256>>

RECURSIVE ProgBytes(_)
ProgBytes(prog) ==
    IF prog = <<>> THEN <<>> ELSE WordBytes(Head(prog)) \o ProgBytes(Tail(prog))

MAGIC_Z64 == W(\h8037, \h1240)

\* a big-endian image: the 0x40-byte header (magic at 0, boot address at 8),
\* a jump to the word after it (start_emulation leaves next_pc at the reset
\* value, so only a jump keeps execution in the image), then the program
Image(boot, prog) ==
    WordBytes(MAGIC_Z64) \o <<0, 0, 0, 0>> \o WordBytes(boot)
        \o [k \in 1..52 |-> 0]
        \o WordBytes(EncJ(2, 17)) \o ProgBytes(prog)

BootAddrs == {W(\hB000, \h0040)}

\* ROMHeader.parse: the boot address of a big-endian image
ROMHeader_boot_address(data) == SeqWord(data, 8)

MAGIC_N64 == W(\h4012, \h3780)
MAGIC_V64 == W(\h3780, \h4012)
HEADER_READ == \h1000    \* bytes of the image ROMHeader.__init__ keeps
HEADER_MIN == \h40       \* bytes parse needs

\* data[:n]
Prefix(data, n) == SubSeq(data, 1, IF Len(data) < n THEN Len(data) ELSE n)
\* data[n:]
Suffix(data, n) == SubSeq(data, n + 1, Len(data))

\* ROMHeader.swap_endian_n64: every group of four bytes reversed (a last
\* group of fewer than four bytes is reversed too)
swap_endian_n64(data) ==
    [k \in 1..Len(data) |->
        LET g == ((k - 1) \div 4) * 4
            n == IF Len(data) - g < 4 THEN Len(data) - g ELSE 4
        IN data[g + n - (k - 1 - g)]]

\* ROMHeader.swap_endian_v64 on data of even length: bytes swapped in pairs
swap_endian_v64(data) ==
    [k \in 1..Len(data) |-> IF k % 2 = 1 THEN data[k + 1] ELSE data[k - 1]]

\* ROMHeader.swap_endian_v64 reads data[i + 1] past the end of data of odd
\* length: the constructor raises IndexError
ROMHeader_raises(data) ==
    LET raw == Prefix(data, HEADER_READ) IN
    /\ Len(raw) >= HEADER_MIN
    /\ SeqWord(raw, 0) = MAGIC_V64
    /\ Len(raw) % 2 = 1

\* ROMHeader.__init__ and parse: the attributes of the header object the
\* driver and the memory loader read.  fields tells whether parse reached
\* the assignments of the header fields (boot_address among them); without
\* them the object has no such attribute
ROMHeader(data) ==
    LET raw == Prefix(data, HEADER_READ)
        magic == SeqWord(raw, 0)
        none == [raw_data |-> raw, valid |-> FALSE, endian |-> "unset",
                 fields |-> FALSE, boot_address |-> Zero]
        parsed(e, norm) ==
            [raw_data |-> norm, valid |-> TRUE, endian |-> e,
             fields |-> TRUE, boot_address |-> ROMHeader_boot_address(norm)]
    IN
    IF Len(raw) < HEADER_MIN THEN none
    ELSE IF magic = MAGIC_Z64 THEN parsed("big", raw)
    ELSE IF magic = MAGIC_N64 THEN parsed("little", swap_endian_n64(raw))
    ELSE IF magic = MAGIC_V64 THEN parsed("byteswap", swap_endian_v64(raw))
    ELSE [none EXCEPT !.endian = "unknown"]

\* the programs of an image: a fixed prefix, then n words chosen from menu
Programs(prefix, menu, n) == { prefix \o free : free \in [1..n -> menu] }

(***************************************************************************)
(* The emulator with one execution worker, a step() at a time              *)
(***************************************************************************)
\* no file was loaded, no save state was written
None == "None"
NoFile == [written |-> FALSE]

RenderIdle == [at |-> "idle", scheduled |-> 0, passes |-> 0, snap |-> <<>>]

\* the fields render_loop copies into cpu_state, in the order it reads them
Snap(c) ==
    <<c.pc, c.instructions_executed, c.cycles,
      [k \in 0..15 |-> c.registers[k]], c.hi, c.lo>>

InitWith(prefix, menu, n) ==
    \E boot \in BootAddrs, prog \in Programs(prefix, menu, n) :
      \E image \in {Image(boot, prog)} :
        /\ cpu = MIPSCPU_init
        /\ memory = Memory_load_rom(Memory_init, image)
        /\ emulation_running = FALSE
        /\ rom_header = ROMHeader(image)
        /\ current_rom = "image.z64"
        /\ state_file = NoFile
        /\ workers = <<>>
        /\ render = RenderIdle
        /\ trace = <<>>
        /\ boundaries = [seen |-> {Snap(MIPSCPU_init)}, closed |-> FALSE,
                         last |-> Snap(MIPSCPU_init)]

Starts == Cardinality({k \in DOMAIN trace : trace[k].op = "start"})
Steps == Cardinality({k \in DOMAIN trace : trace[k].op = "step"})

start_cpu_KeepsPC(c, boot) == reset([c EXCEPT !.running = TRUE])

\* start_emulation, up to the creation of the worker
start_cpu(c, boot) == [reset([c EXCEPT !.running = TRUE]) EXCEPT !.pc = boot]

SeqStart ==
    /\ current_rom # None
    /\ ~emulation_running
    /\ rom_header.fields
    /\ Starts < MaxStarts
    /\ emulation_running' = TRUE
    /\ cpu' = start_cpu(cpu, rom_header.boot_address)
    /\ trace' = Append(trace, [op |-> "start"])
    /\ UNCHANGED <<memory, rom_header, current_rom,
                 state_file, workers, render, boundaries>>

\* what a step() call leaves in the history: where it fetched, what it
\* executed, the effective address of a load or store, and whether the
\* instruction armed a branch target (s1 is the machine after the
\* instruction, before the PC update)
StepEntry(s, s1) ==
    [op |-> "step", pc |-> s.cpu.pc, instr |-> read_word(s.mem, s.cpu.pc),
     addr |-> EffAddr(s, read_word(s.mem, s.cpu.pc)),
     branched |-> s1.cpu.branch_delay, target |-> s1.cpu.delay_slot_pc]

\* one iteration of emulation_loop's inner loop: cpu.step()
SeqStep ==
    /\ emulation_running /\ cpu.running
    /\ Steps < MaxSteps
    /\ \E s1 \in {StepExecute([cpu |-> cpu, mem |-> memory])} :
          /\ cpu' = StepTimer(StepCount(StepUpdatePC(s1.cpu)))
          /\ memory' = s1.mem
          /\ trace' = Append(trace, StepEntry([cpu |-> cpu, mem |-> memory], s1))
    /\ UNCHANGED <<emulation_running, rom_header, current_rom,
                 state_file, workers, render, boundaries>>

\* pause_emulation
SeqPause ==
    /\ emulation_running
    /\ emulation_running' = FALSE
    /\ cpu' = [cpu EXCEPT !.running = FALSE]
    /\ trace' = Append(trace, [op |-> "pause"])
    /\ UNCHANGED <<memory, rom_header, current_rom,
                 state_file, workers, render, boundaries>>

SeqNext == SeqStart \/ SeqStep \/ SeqPause

(***************************************************************************)
(* What a step() did, read from two successive states                      *)
(***************************************************************************)
\* this transition is one step() call
StepTaken ==
    /\ Len(trace') = Len(trace) + 1
    /\ trace'[Len(trace')].op = "step"

\* the instruction word the next step() fetches
Fetched == read_word(memory, cpu.pc)

\* the last thing that happened is a step() call, and what it fetched
LastIsStep == trace # <<>> /\ trace[Len(trace)].op = "step"
LastInstr == trace[Len(trace)].instr
LastAddr == trace[Len(trace)].addr

\* the machine as the next step() finds it
Here == [cpu |-> cpu, mem |-> memory]

IsLL(i) == Opcode(i) = 48
IsSC(i) == Opcode(i) = 56
IsStore(i) == Opcode(i) \in {40, 41, 43}

IsSPECIAL(i, funct) == Opcode(i) = 0 /\ Funct(i) = funct
IsSYSCALL(i) == IsSPECIAL(i, 12)
IsBREAK(i) == IsSPECIAL(i, 13)
IsERET(i) == Opcode(i) = 16 /\ Rs(i) = 16 /\ Funct(i) = 24

\* Cause bits 2-6
ExcCode(regs) == (regs[COP0_CAUSE][2] \div 4) % 32

(***************************************************************************)
(* Branches and jumps                                                      *)
(***************************************************************************)
ORI_r1 == EncI(13, 0, 1, \h0044)
LUI_r2 == EncI(15, 0, 2, \h8000)
LUI_r3 == EncI(15, 0, 3, \hB000)
NOP == W(0, 0)

BranchMenu ==
    { NOP,
      EncJ(2, 20), EncJ(3, 20),                      \* J, JAL
      EncR(1, 0, 0, 0, 8), EncR(1, 0, 4, 0, 9),       \* JR r1, JALR r4, r1
      EncI(4, 0, 0, 3), EncI(5, 1, 0, 3),             \* BEQ, BNE
      EncI(6, 0, 0, \hFFFE), EncI(7, 1, 0, 3),        \* BLEZ, BGTZ
      EncI(1, 2, 0, 3), EncI(1, 0, 1, 3),             \* BLTZ, BGEZ
      EncI(1, 2, 16, 3), EncI(1, 0, 17, 3),           \* BLTZAL, BGEZAL
      EncI(4, 1, 0, 3), EncI(7, 0, 0, 3) }            \* BEQ, BGTZ not taken

InitBranch == InitWith(<<ORI_r1, LUI_r2>>, BranchMenu, ProgLen)
SpecBranch == InitBranch /\ [][SeqNext]_vars

\* C1: after a taken branch or jump at address A with target T, the next
\* step() fetches the instruction at A+4, and the step after that fetches
\* from T.
C1_DelaySlotThenTarget ==
    \A k \in 1..(Len(trace) - 1) :
        (trace[k].op = "step" /\ trace[k].branched /\ trace[k + 1].op = "step")
        => /\ trace[k + 1].pc = Mask32(AddN(trace[k].pc, 4))
           /\ (k + 2 <= Len(trace) /\ trace[k + 2].op = "step"
                  /\ ~trace[k + 1].branched)
              => trace[k + 2].pc = trace[k].target

(***************************************************************************)
(* Exceptions                                                              *)
(***************************************************************************)
SYSCALL == EncR(0, 0, 0, 0, 12)
BREAK == EncR(0, 0, 0, 0, 13)
ERET == EncCop0(16, 0, 0, 24)
MTC0_r1_EPC == EncCop0(4, 1, COP0_EPC, 0)
MTC0_r1_STATUS == EncCop0(4, 1, COP0_STATUS, 0)

ExcMenu == {NOP, SYSCALL, BREAK, ERET, MTC0_r1_EPC, MTC0_r1_STATUS}

InitExc == InitWith(<<EncI(13, 0, 1, \h0047)>>, ExcMenu, ProgLen + 1)
SpecExc == InitExc /\ [][SeqNext]_vars

\* C2: a step() that executes SYSCALL (code 8) or BREAK (code 9) at PC = P
\* returns with EPC = P, Cause bits 2-6 equal to the code, and PC equal to
\* the exception vector 0x80000180.
C2_ExceptionEntry ==
    [][(StepTaken /\ (IsSYSCALL(Fetched) \/ IsBREAK(Fetched)))
        => /\ cpu'.cop0[COP0_EPC] = cpu.pc
           /\ ExcCode(cpu'.cop0) = (IF IsSYSCALL(Fetched) THEN 8 ELSE 9)
           /\ cpu'.pc = EXCEPTION_VECTOR]_vars

\* C3: a step() that executes ERET returns with PC equal to the EPC held
\* before the step, and with Status bit 1 cleared and no other Status bit
\* changed.
C3_EretReturnsToEPC ==
    [][(StepTaken /\ IsERET(Fetched))
        => /\ cpu'.pc = cpu.cop0[COP0_EPC]
           /\ cpu'.cop0[COP0_STATUS] = AndNot(cpu.cop0[COP0_STATUS], W(0, 2))]_vars

(***************************************************************************)
(* Register 0                                                              *)
(***************************************************************************)
ORI_r0 == EncI(13, 0, 0, 5)
LL_r2 == EncI(48, 0, 2, 0)
MTHI_r1 == EncR(1, 0, 0, 0, 17)
MTLO_r1 == EncR(1, 0, 0, 0, 19)

\* r1 = 0x44, r3 = 0xB0000000 (ROM), hi = lo = 0x44, link on address 0
ZeroPrefix == <<ORI_r1, LUI_r3, MTHI_r1, MTLO_r1, LL_r2>>

\* every instruction that writes a general register, with destination 0 and
\* a result that is not 0
ZeroMenu ==
    { EncI(op, 1, 0, 1) : op \in {8, 9, 24, 25} }                 \* ADDI..DADDIU
    \cup { EncI(10, 0, 0, 1), EncI(11, 0, 0, 1) }                 \* SLTI, SLTIU
    \cup { EncI(12, 1, 0, \h44), ORI_r0, EncI(14, 0, 0, 5) }      \* ANDI, ORI, XORI
    \cup { EncI(15, 0, 0, 1) }                                    \* LUI
    \cup { EncI(op, 3, 0, 0) : op \in {32, 33, 35, 36, 37, 39, 48} }  \* loads, LL
    \cup { EncI(38, 3, 0, 3) }                                   \* LWR
    \cup { EncI(56, 0, 0, 0) }                                    \* SC
    \cup { EncR(0, 1, 0, 1, f) : f \in {0, 2, 3, 4, 6, 7, 20, 22, 23, 56, 58, 59} }
    \cup { EncR(0, 0, 0, 0, 16), EncR(0, 0, 0, 0, 18) }           \* MFHI, MFLO
    \cup { EncR(1, 1, 0, 0, f) : f \in {32, 33, 36, 37, 44, 45} } \* ADD, AND, OR..
    \cup { EncR(0, 1, 0, 0, f) : f \in {34, 35, 38, 39, 42, 43, 46, 47} }
    \cup { EncR(1, 0, 0, 0, 9) }                                  \* JALR r0, r1
    \cup { EncCop0(0, 0, COP0_PRID, 0) }                          \* MFC0 r0, PRId

InitZero == InitWith(ZeroPrefix, ZeroMenu, ProgLen)
SpecZero == InitZero /\ [][SeqNext]_vars

\* C4: general register 0 reads as 0 after every step(), whatever the
\* instruction and whatever register it names as its destination.
C4_RegisterZero == cpu.registers[0] = Zero

\* an ORI with destination 0 and a non-zero result has just been executed
C4_Witness ==
    /\ LastIsStep
    /\ LastInstr = ORI_r0
    /\ cpu.registers[0] = Zero

(***************************************************************************)
(* LL and SC                                                               *)
(***************************************************************************)
LUI_r5 == EncI(15, 0, 5, \h0080)

\* r1 = 0x44, r5 = 0x00800000 (the end of RAM)
AtomicPrefix == <<ORI_r1, LUI_r5>>

\* LL and SC at 0x1000, at the last word of RAM and at the unaligned address
\* after it; SC with destination 0
AtomicMenu ==
    { EncI(48, 0, 2, \h1000), EncI(48, 5, 2, \hFFFC), EncI(48, 5, 2, \hFFFD),
      EncI(56, 0, 1, \h1000), EncI(56, 5, 1, \hFFFC), EncI(56, 5, 1, \hFFFD),
      EncI(56, 0, 0, \h1000) }

InitAtomic == InitWith(AtomicPrefix, AtomicMenu, ProgLen + 2)
SpecAtomic == InitAtomic /\ [][SeqNext]_vars

\* this transition is a step() that executes SC right after a step() that
\* executed LL at a RAM address
SCAfterLL ==
    /\ StepTaken /\ IsSC(Fetched)
    /\ LastIsStep /\ IsLL(LastInstr) /\ IsRdramAddr(LastAddr)

\* C5: after LL at RAM address X, an immediately following SC at X writes
\* the register value to memory at X and sets its destination register to
\* 1; an SC at a different address Y sets its destination register to 0 and
\* leaves memory at Y unchanged.
C5_LinkedStore ==
    [][SCAfterLL =>
        IF EffAddr(Here, Fetched) = LastAddr
        THEN /\ read_word(memory', LastAddr) = Mask32(R(Here, Rt(Fetched)))
             /\ cpu'.registers[Rt(Fetched)] = One
        ELSE /\ cpu'.registers[Rt(Fetched)] = Zero
             /\ read_word(memory', EffAddr(Here, Fetched))
                    = read_word(memory, EffAddr(Here, Fetched))]_vars

\* C5, amended: the same, when the four bytes at X lie inside RAM (true of
\* every word-aligned RAM address) and with the destination register set to
\* 1 unless it is register 0, which stays 0.
C5_LinkedStoreInRam ==
    [][SCAfterLL =>
        IF EffAddr(Here, Fetched) = LastAddr
        THEN RamOffset(LastAddr) < memory.rdram_len - 3
             => /\ read_word(memory', LastAddr) = Mask32(R(Here, Rt(Fetched)))
                /\ cpu'.registers[Rt(Fetched)]
                       = (IF Rt(Fetched) = 0 THEN Zero ELSE One)
        ELSE /\ cpu'.registers[Rt(Fetched)] = Zero
             /\ read_word(memory', EffAddr(Here, Fetched))
                    = read_word(memory, EffAddr(Here, Fetched))]_vars

\* the last two steps are LL r2 and SC r1 at the last word of RAM, and the
\* SC stored r1 = 0x44 there and returned 1
C5_Witness ==
    /\ Len(trace) >= 2 /\ LastIsStep /\ IsSC(LastInstr)
    /\ trace[Len(trace) - 1].op = "step"
    /\ IsLL(trace[Len(trace) - 1].instr)
    /\ trace[Len(trace) - 1].addr = LastAddr
    /\ LastAddr = W(\h007F, \hFFFC)
    /\ read_word(memory, LastAddr) = W(0, \h0044)
    /\ cpu.registers[1] = One

\* the history positions of the events that end a link: an SC, or a
\* start_emulation (which resets the CPU)
LinkEnds ==
    {k \in DOMAIN trace :
        trace[k].op = "start" \/ (trace[k].op = "step" /\ IsSC(trace[k].instr))}

\* no LL has executed since the last SC or reset
NoLLSince ==
    \A j \in DOMAIN trace :
        (trace[j].op = "step" /\ IsLL(trace[j].instr))
        => \E k \in LinkEnds : k > j

\* C7: after every SC, successful or failed, the link bit is false; an SC
\* with no LL executed since the previous SC or reset fails: destination
\* register 0 and memory not written.
C7_LinkClearedBySC ==
    [][(StepTaken /\ IsSC(Fetched))
        => /\ ~cpu'.llbit
           /\ NoLLSince => /\ cpu'.registers[Rt(Fetched)] = Zero
                           /\ memory' = memory]_vars

\* LL, SC, SC at 0x1000: the first SC stored 0x44, the second one, with no
\* LL since the first, has just failed
C7_Witness ==
    /\ Len(trace) >= 3 /\ LastIsStep /\ IsSC(LastInstr)
    /\ trace[Len(trace) - 1].op = "step" /\ IsSC(trace[Len(trace) - 1].instr)
    /\ trace[Len(trace) - 2].op = "step" /\ IsLL(trace[Len(trace) - 2].instr)
    /\ trace[Len(trace) - 2].addr = LastAddr
    /\ trace[Len(trace) - 1].addr = LastAddr
    /\ Rt(LastInstr) = 1
    /\ read_word(memory, LastAddr) = W(0, \h0044)
    /\ cpu.registers[1] = Zero
    /\ ~cpu.llbit

(***************************************************************************)
(* Stores between LL and SC                                                *)
(***************************************************************************)
LL_X == EncI(48, 0, 2, \h1000)
SC_X == EncI(56, 0, 1, \h1000)

StoreMenu ==
    { NOP, SC_X,
      EncI(43, 0, 1, \h1000), EncI(41, 0, 1, \h1000), EncI(40, 0, 1, \h1000),
      EncI(43, 0, 1, \h1004),                        \* SW next to the link
      EncI(15, 0, 1, \h0055) }                       \* LUI r1

InitStore == InitWith(<<ORI_r1, LL_X>>, StoreMenu, ProgLen + 1)
SpecStore == InitStore /\ [][SeqNext]_vars

\* a store to address X has executed since the last LL, which was at X, and
\* nothing has ended that link since
StoredSinceLL(X) ==
    \E j \in DOMAIN trace :
        /\ trace[j].op = "step" /\ IsLL(trace[j].instr) /\ trace[j].addr = X
        /\ \A k \in LinkEnds : k < j
        /\ \A k \in DOMAIN trace :
              (k > j /\ trace[k].op = "step") => ~IsLL(trace[k].instr)
        /\ \E k \in DOMAIN trace :
              /\ k > j /\ trace[k].op = "step"
              /\ IsStore(trace[k].instr) /\ trace[k].addr = X

\* C6: if a store (SB, SH or SW) to the linked address executes between LL
\* at X and SC at X, the SC fails: destination register 0 and memory not
\* written by the SC.
C6_ConflictingStoreFailsSC ==
    [][(StepTaken /\ IsSC(Fetched) /\ StoredSinceLL(EffAddr(Here, Fetched)))
        => /\ cpu'.registers[Rt(Fetched)] = Zero
           /\ memory' = memory]_vars

(***************************************************************************)
(* The emulator with its threads: the Tk thread runs the handlers and      *)
(* render_loop one at a time, and every start_emulation creates a worker   *)
(* thread running emulation_loop.  A worker is interleaved with the Tk     *)
(* thread and with other workers between the parts of step().              *)
(***************************************************************************)
InstructionsPerLoop == 1562500 \div 500

ThreadMenu == {ORI_r1}

InitThreads == InitWith(<<>>, ThreadMenu, ProgLen)

NewWorker == [at |-> "while", i |-> 0]

\* a worker that is inside cpu.step(), past the instruction's execution
InStep(w) == w.at \in {"pc", "count", "timer"}

Resets == Cardinality({k \in DOMAIN trace : trace[k].op = "reset"})

\* History kept for the snapshot of render_loop.  last is the engine
\* state at the latest boundary between step() calls (no worker inside
\* step()); seen holds the engine states at the boundaries from the last
\* one before the first field was read up to the first one after the last
\* field was read; closed says that this final boundary has been reached.
\* r, c and ws are the render state, the CPU and the workers after the
\* transition.
Boundaries(r, c, ws) ==
    LET atBoundary == ~\E k \in DOMAIN ws : InStep(ws[k])
        last == IF atBoundary THEN Snap(c) ELSE boundaries.last
    IN IF r.snap = <<>>
       THEN [seen |-> {last}, closed |-> FALSE, last |-> last]
       ELSE IF boundaries.closed \/ ~atBoundary
       THEN [boundaries EXCEPT !.last = last]
       ELSE [seen |-> boundaries.seen \cup {last},
             closed |-> Len(r.snap) = 6, last |-> last]

\* the Tk thread is between callbacks
TkIdle == render.at = "idle"

\* start_emulation: returns at once when already running; otherwise sets
\* the flags, resets the CPU, creates a worker and calls render_loop
start_emulation ==
    /\ TkIdle
    /\ current_rom # None
    /\ ~emulation_running
    /\ rom_header.fields
    /\ Starts < MaxStarts
    /\ emulation_running' = TRUE
    /\ cpu' = start_cpu(cpu, rom_header.boot_address)
    /\ workers' = Append(workers, NewWorker)
    /\ render' = [render EXCEPT !.at = "read_pc", !.snap = <<>>]
    /\ trace' = Append(trace, [op |-> "start"])
    /\ boundaries' = Boundaries(render', cpu', workers')
    /\ UNCHANGED <<memory, rom_header, current_rom, state_file>>

pause_emulation ==
    /\ TkIdle
    /\ emulation_running
    /\ emulation_running' = FALSE
    /\ cpu' = [cpu EXCEPT !.running = FALSE]
    /\ boundaries' = Boundaries(render, cpu', workers)
    /\ UNCHANGED <<memory, rom_header, current_rom,
                 state_file, workers, render, trace>>

stop_emulation ==
    /\ TkIdle
    /\ emulation_running' = FALSE
    /\ cpu' = [cpu EXCEPT !.running = FALSE]
    /\ boundaries' = Boundaries(render, cpu', workers)
    /\ UNCHANGED <<memory, rom_header, current_rom,
                 state_file, workers, render, trace>>

\* reset_emulation: stop_emulation, cpu.reset(), and start_emulation again
\* when the emulation was running
reset_emulation ==
    /\ TkIdle
    /\ current_rom # None
    /\ rom_header.fields
    /\ Resets < MaxResets
    /\ emulation_running => Starts < MaxStarts
    /\ \E c1 \in {[reset([cpu EXCEPT !.running = FALSE])
                      EXCEPT !.pc = rom_header.boot_address]} :
          IF emulation_running
          THEN /\ cpu' = start_cpu(c1, rom_header.boot_address)
               /\ workers' = Append(workers, NewWorker)
               /\ render' = [render EXCEPT !.at = "read_pc", !.snap = <<>>]
               /\ trace' = trace \o <<[op |-> "reset"], [op |-> "start"]>>
               /\ UNCHANGED emulation_running
          ELSE /\ cpu' = c1
               /\ trace' = Append(trace, [op |-> "reset"])
               /\ UNCHANGED <<emulation_running, workers, render>>
    /\ boundaries' = Boundaries(render', cpu', workers')
    /\ UNCHANGED <<memory, rom_header, current_rom, state_file>>

\* a render_loop callback scheduled with root.after begins: it returns at
\* once when the emulation is not running
RenderBegin ==
    /\ TkIdle
    /\ render.scheduled > 0
    /\ render.passes < MaxRenders
    /\ render' = [render EXCEPT !.scheduled = @ - 1,
                     !.at = IF emulation_running THEN "read_pc" ELSE "idle",
                     !.passes = @ + 1,
                     !.snap = <<>>]
    /\ boundaries' = Boundaries(render', cpu, workers)
    /\ UNCHANGED <<cpu, memory, emulation_running, rom_header, current_rom,
                 state_file, workers,
                   trace>>

RenderFields == <<"read_pc", "read_instructions", "read_cycles",
                  "read_registers", "read_hi", "read_lo", "fps">>

\* render_loop evaluates the next entry of the cpu_state dictionary
RenderRead ==
    /\ \E k \in 1..6 :
          /\ render.at = RenderFields[k]
          /\ render' = [render EXCEPT !.at = RenderFields[k + 1],
                                      !.snap = Append(@, Snap(cpu)[k])]
          /\ boundaries' = IF k = 6 THEN Boundaries(render', cpu, workers)
                           ELSE boundaries
    /\ UNCHANGED <<cpu, memory, emulation_running, rom_header, current_rom,
                 state_file, workers,
                   trace>>

\* the rest of render_loop: when a second has passed since the last update
\* of the counters shown (elapsed), it zeroes cpu.instructions_executed;
\* then it schedules itself again
RenderFps ==
    /\ render.at = "fps"
    /\ \E elapsed \in BOOLEAN :
          cpu' = IF elapsed THEN [cpu EXCEPT !.instructions_executed = 0]
                 ELSE cpu
    /\ render' = [render EXCEPT !.at = "idle", !.scheduled = @ + 1]
    /\ boundaries' = Boundaries(render, cpu', workers)
    /\ UNCHANGED <<memory, emulation_running, rom_header, current_rom,
                 state_file, workers, trace>>

\* an emulation_loop whose while loop tests nothing
WorkerWhile_Forever(w) ==
    /\ workers[w].at = "while"
    /\ workers' = [workers EXCEPT ![w].i = 0, ![w].at = "for"]
    /\ UNCHANGED <<cpu, memory, emulation_running, rom_header, current_rom,
                 state_file, render,
                   trace, boundaries>>

\* emulation_loop: the test of the while loop
WorkerWhile(w) ==
    /\ workers[w].at = "while"
    /\ workers' = [workers EXCEPT ![w].i = 0,
                      ![w].at = IF emulation_running /\ cpu.running
                                THEN "for" ELSE "done"]
    /\ UNCHANGED <<cpu, memory, emulation_running, rom_header, current_rom,
                 state_file, render,
                   trace, boundaries>>

\* emulation_loop: the head of the for loop and the test before cpu.step()
WorkerFor(w) ==
    /\ workers[w].at = "for"
    /\ workers' = [workers EXCEPT
                      ![w].at = IF workers[w].i < InstructionsPerLoop
                                   /\ cpu.running
                                THEN "call" ELSE "sleep"]
    /\ UNCHANGED <<cpu, memory, emulation_running, rom_header, current_rom,
                 state_file, render,
                   trace, boundaries>>

\* a step() that does not test running
WorkerExecute_NoRunningTest(w) ==
    /\ workers[w].at = "call"
    /\ Steps < MaxThreadSteps
    /\ \E s1 \in {StepExecute([cpu |-> cpu, mem |-> memory])} :
          /\ cpu' = s1.cpu
          /\ memory' = s1.mem
          /\ workers' = [workers EXCEPT ![w].at = "pc"]
    /\ UNCHANGED <<emulation_running, rom_header, current_rom,
                 state_file, render, trace, boundaries>>

\* step(): the running test, then the fetch and execute_instruction
WorkerExecute(w) ==
    /\ workers[w].at = "call"
    /\ cpu.running => Steps < MaxThreadSteps
    /\ IF ~cpu.running
       THEN /\ workers' = [workers EXCEPT ![w].at = "for", ![w].i = @ + 1]
            /\ UNCHANGED <<cpu, memory>>
       ELSE \E s1 \in {StepExecute([cpu |-> cpu, mem |-> memory])} :
               /\ cpu' = s1.cpu
               /\ memory' = s1.mem
               /\ workers' = [workers EXCEPT ![w].at = "pc"]
    /\ UNCHANGED <<emulation_running, rom_header, current_rom,
                 state_file, render, trace, boundaries>>

\* step(): the PC update
WorkerUpdatePC(w) ==
    /\ workers[w].at = "pc"
    /\ cpu' = StepUpdatePC(cpu)
    /\ workers' = [workers EXCEPT ![w].at = "count"]
    /\ UNCHANGED <<memory, emulation_running, rom_header, current_rom,
                 state_file, render, trace,
                   boundaries>>

\* step(): instructions_executed += 1 and cycles += 1
WorkerCount(w) ==
    /\ workers[w].at = "count"
    /\ cpu' = StepCount(cpu)
    /\ workers' = [workers EXCEPT ![w].at = "timer"]
    /\ trace' = Append(trace, [op |-> "step"])
    /\ UNCHANGED <<memory, emulation_running, rom_header, current_rom,
                 state_file, render, boundaries>>

\* step(): the COUNT register and the timer interrupt; step() returns
WorkerTimer(w) ==
    /\ workers[w].at = "timer"
    /\ cpu' = StepTimer(cpu)
    /\ workers' = [workers EXCEPT ![w].at = "for", ![w].i = @ + 1]
    /\ boundaries' = Boundaries(render, cpu', workers')
    /\ UNCHANGED <<memory, emulation_running, rom_header, current_rom,
                 state_file, render, trace>>

\* emulation_loop: time.sleep(1.0 / 60.0) returns
WorkerSleep(w) ==
    /\ workers[w].at = "sleep"
    /\ workers' = [workers EXCEPT ![w].at = "while"]
    /\ UNCHANGED <<cpu, memory, emulation_running, rom_header, current_rom,
                 state_file, render,
                   trace, boundaries>>

Next ==
    \/ start_emulation
    \/ pause_emulation
    \/ stop_emulation
    \/ reset_emulation
    \/ RenderBegin
    \/ RenderRead
    \/ RenderFps
    \/ \E w \in DOMAIN workers : WorkerWhile(w)
    \/ \E w \in DOMAIN workers : WorkerFor(w)
    \/ \E w \in DOMAIN workers : WorkerExecute(w)
    \/ \E w \in DOMAIN workers : WorkerUpdatePC(w)
    \/ \E w \in DOMAIN workers : WorkerCount(w)
    \/ \E w \in DOMAIN workers : WorkerTimer(w)
    \/ \E w \in DOMAIN workers : WorkerSleep(w)

SpecThreads == InitThreads /\ [][Next]_vars

\* the step() calls counted since the CPU was last reset (start_emulation
\* and reset_emulation both call cpu.reset())
StepsSinceReset ==
    Cardinality({k \in DOMAIN trace :
        /\ trace[k].op = "step"
        /\ \A j \in DOMAIN trace : trace[j].op \in {"start", "reset"} => j < k})

\* this transition is a part of render_loop: the Tk thread moves and no
\* handler is recorded
RenderMoves == render' # render /\ trace' = trace

\* C8: render_loop writes no field of the CPU, COP0 or memory; the
\* instruction counter never decreases between resets and equals the number
\* of steps executed since the last reset.
C8_RenderOnlyReads ==
    [][/\ RenderMoves => (cpu' = cpu /\ memory' = memory)
       /\ (\A k \in DOMAIN trace' : k > Len(trace) => trace'[k].op = "step")
          => cpu'.instructions_executed >= cpu.instructions_executed
       /\ cpu'.instructions_executed = StepsSinceReset']_vars

\* C9: at most one step() call is in progress at any time, whatever the
\* interleaving of start, pause, stop and reset with the workers.
C9_OneStepAtATime ==
    Cardinality({w \in DOMAIN workers : InStep(workers[w])}) <= 1

\* C10: the snapshot taken by render_loop equals the engine state at one
\* boundary between two step() calls (one of those from the last boundary
\* before its first read to the first boundary after its last read).
C10_SnapshotAtBoundary ==
    boundaries.closed => render.snap \in boundaries.seen


(***************************************************************************)
(* Pause and resume                                                        *)
(***************************************************************************)
LastIsPause == trace # <<>> /\ trace[Len(trace)].op = "pause"

\* this transition is one start_emulation call that started the engine
StartTaken ==
    /\ Len(trace') = Len(trace) + 1
    /\ trace'[Len(trace')].op = "start"

\* the fields of the engine a resume has to find as the pause left them
EngineState(c) ==
    <<c.pc, c.registers, c.hi, c.lo, c.cop0, c.instructions_executed, c.cycles>>

\* C11: a start_emulation that follows a pause_emulation resumes: the PC,
\* the registers, HI/LO, the COP0 registers and the counters after it are
\* those the pause left.
C11_PauseRetainsState ==
    [][(LastIsPause /\ StartTaken) => EngineState(cpu') = EngineState(cpu)]_vars


(***************************************************************************)
(* Save states: save_state writes a JSON object, load_state reads one      *)
(***************************************************************************)
MaxSaves == 1       \* save_state calls in one behaviour
MaxLoads == 1       \* load_state calls in one behaviour

\* divmod(a, 10) for a >= 0
DivMod10(a) ==
    LET x == (a[1] % 10) * B16 + a[2]
    IN [q |-> Norm(a[1] \div 10, x \div 10), r |-> x % 10]

\* the decimal digits of a >= 0, most significant first
RECURSIVE Digits(_)
Digits(a) ==
    IF a[1] = 0 /\ a[2] < 10 THEN <<a[2]>>
    ELSE Append(Digits(DivMod10(a).q), DivMod10(a).r)

\* json.dump of an int: an optional sign and its decimal digits
json_dump_int(a) == [neg |-> IsNeg(a), digits |-> Digits(Abs(a))]

RECURSIVE FromDigits(_, _)
FromDigits(ds, acc) ==
    IF ds = <<>> THEN acc
    ELSE FromDigits(Tail(ds), AddN(MulN(acc, 10), Head(ds)))

\* json.load of an int
json_load_int(t) ==
    LET v == FromDigits(t.digits, Zero) IN IF t.neg THEN Neg(v) ELSE v

\* json.dump and json.load of a list of ints
json_dump_list(l) == [k \in DOMAIN l |-> json_dump_int(l[k])]
json_load_list(t) == [k \in DOMAIN t |-> json_load_int(t[k])]

\* bytearray.hex(): two hex digits per byte; chars is the length of the
\* string, digits holds the pairs that are not "00"
hex(buf, len) ==
    [chars |-> 2 * len,
     digits |-> [k \in DOMAIN buf |-> <<buf[k] \div 16, buf[k] % 16>>]]

\* bytearray.fromhex(string) of a string of an even number of hex digits
fromhex(h) == [k \in DOMAIN h.digits |-> h.digits[k][1] * 16 + h.digits[k][2]]

\* the keys of the record, in the order load_state reads them
StateKeys == <<"pc", "next_pc", "registers", "hi", "lo", "cop0", "ram", "cycles">>

\* save_state: the JSON object written to the file
StateRecord(c, m) ==
    [written |-> TRUE,
     keys |-> {StateKeys[k] : k \in DOMAIN StateKeys},
     pc |-> json_dump_int(c.pc),
     next_pc |-> json_dump_int(c.next_pc),
     registers |-> json_dump_list(c.registers),
     hi |-> json_dump_int(c.hi),
     lo |-> json_dump_int(c.lo),
     cop0 |-> json_dump_list(c.cop0),
     ram |-> hex(m.rdram, m.rdram_len),
     cycles |-> json_dump_int(FromInt(c.cycles))]

\* one assignment of load_state: self.<key> = state['<key>']
Assign_DropCycles(s, key, state) ==
    CASE key = "pc" -> [s EXCEPT !.cpu.pc = json_load_int(state.pc)]
      [] key = "next_pc" -> [s EXCEPT !.cpu.next_pc = json_load_int(state.next_pc)]
      [] key = "registers" ->
            [s EXCEPT !.cpu.registers = json_load_list(state.registers)]
      [] key = "hi" -> [s EXCEPT !.cpu.hi = json_load_int(state.hi)]
      [] key = "lo" -> [s EXCEPT !.cpu.lo = json_load_int(state.lo)]
      [] key = "cop0" -> [s EXCEPT !.cpu.cop0 = json_load_list(state.cop0)]
      [] key = "ram" -> [s EXCEPT !.mem.rdram = fromhex(state.ram),
                                  !.mem.rdram_len = state.ram.chars \div 2]
      [] key = "cycles" -> s

Assign(s, key, state) ==
    CASE key = "pc" -> [s EXCEPT !.cpu.pc = json_load_int(state.pc)]
      [] key = "next_pc" -> [s EXCEPT !.cpu.next_pc = json_load_int(state.next_pc)]
      [] key = "registers" ->
            [s EXCEPT !.cpu.registers = json_load_list(state.registers)]
      [] key = "hi" -> [s EXCEPT !.cpu.hi = json_load_int(state.hi)]
      [] key = "lo" -> [s EXCEPT !.cpu.lo = json_load_int(state.lo)]
      [] key = "cop0" -> [s EXCEPT !.cpu.cop0 = json_load_list(state.cop0)]
      [] key = "ram" -> [s EXCEPT !.mem.rdram = fromhex(state.ram),
                                  !.mem.rdram_len = state.ram.chars \div 2]
      [] key = "cycles" ->
            [s EXCEPT !.cpu.cycles = ToInt(json_load_int(state.cycles))]

\* the assignment for this key raises: state[key] is a KeyError for a
\* missing key, fromhex a ValueError for an odd number of hex digits
Raises(key, state) ==
    \/ key \notin state.keys
    \/ key = "ram" /\ state.ram.chars % 2 = 1

\* load_state from its k-th assignment on: the assignments run in order
\* and the first one that raises ends the handler in its except clause,
\* with the earlier assignments done
RECURSIVE load_from(_, _, _)
load_from(s, state, k) ==
    IF k > Len(StateKeys) \/ Raises(StateKeys[k], state) THEN s
    ELSE load_from(Assign(s, StateKeys[k], state), state, k + 1)

\* load_state shows its error box
load_reports(state) == \E k \in DOMAIN StateKeys : Raises(StateKeys[k], state)

\* the keys left out of a file, one at a time
MissingKeys == {"pc", "registers", "cycles"}

\* the files a user can pick in load_state once save_state wrote one: the
\* file as written, the file with one key missing, the file with the last
\* hex digit of the RAM image missing
Files(f) ==
    {[name |-> "saved", state |-> f]}
    \cup {[name |-> "partial", state |-> [f EXCEPT !.keys = @ \ {k}]] : k \in MissingKeys}
    \cup {[name |-> "malformed", state |-> [f EXCEPT !.ram.chars = @ - 1]]}

Saves == Cardinality({k \in DOMAIN trace : trace[k].op = "save"})
Loads == Cardinality({k \in DOMAIN trace : trace[k].op = "load"})

\* the fields a save state holds
SavedFields(c, m) ==
    <<c.pc, c.next_pc, c.registers, c.hi, c.lo, c.cop0, m.rdram, m.rdram_len,
      c.cycles>>

\* save_state with a file name chosen in the dialog
save_state ==
    /\ TkIdle
    /\ current_rom # None
    /\ Saves < MaxSaves
    /\ state_file' = StateRecord(cpu, memory)
    /\ trace' = Append(trace, [op |-> "save", halted |-> ~emulation_running,
                               fields |-> SavedFields(cpu, memory)])
    /\ UNCHANGED <<cpu, memory, emulation_running, rom_header, current_rom,
                   workers, render, boundaries>>

\* load_state with a file chosen in the dialog
load_state ==
    /\ TkIdle
    /\ state_file.written
    /\ Loads < MaxLoads
    /\ \E file \in Files(state_file) :
         \E s1 \in {load_from([cpu |-> cpu, mem |-> memory], file.state, 1)} :
            /\ cpu' = s1.cpu
            /\ memory' = s1.mem
            /\ trace' = Append(trace, [op |-> "load", file |-> file.name,
                                       reported |-> load_reports(file.state)])
    /\ UNCHANGED <<emulation_running, rom_header, current_rom, state_file,
                   workers, render, boundaries>>

SW_r1 == EncI(43, 0, 1, \h1000)

MaxStateOps == 9    \* operations in one behaviour with save states

\* r1 = 0x44, then a store or a move chosen freely
StatePrefix == <<ORI_r1>>
StateMenu == {SW_r1, MTHI_r1}

InitState == InitWith(StatePrefix, StateMenu, 1)
StateNext ==
    \/ Len(trace) < MaxStateOps /\ SeqStart
    \/ Len(trace) < MaxStateOps /\ SeqStep
    \/ Len(trace) < MaxStateOps /\ SeqPause
    \/ Len(trace) < MaxStateOps /\ save_state
    \/ Len(trace) < MaxStateOps /\ load_state
SpecState == InitState /\ [][StateNext]_vars


LastIsLoad == trace # <<>> /\ trace[Len(trace)].op = "load"

\* the place in the history of the save_state call that wrote state_file
LastSave == CHOOSE k \in DOMAIN trace :
    /\ trace[k].op = "save"
    /\ \A j \in DOMAIN trace : j > k => trace[j].op # "save"

\* C12: when a save state captured while the engine was halted is loaded
\* again, pc, next_pc, the registers, hi, lo, the COP0 registers, RAM and
\* the cycle counter are those of the capture, whatever ran in between.
C12_SaveRestore ==
    (LastIsLoad /\ trace[Len(trace)].file = "saved" /\ trace[LastSave].halted)
        => SavedFields(cpu, memory) = trace[LastSave].fields

\* a capture after stores, steps and a restart between capture and restore
C12_Witness ==
    /\ LastIsLoad /\ trace[Len(trace)].file = "saved" /\ trace[LastSave].halted
    /\ trace[LastSave].fields[7] # NoBytes
    /\ trace[LastSave].fields[9] > 0
    /\ trace[LastSave].fields[3][1] # Zero
    /\ \E j, k \in DOMAIN trace :
          /\ LastSave < j /\ j < k
          /\ trace[j].op = "start" /\ trace[k].op = "step"

\* this transition is one load_state call
LoadTaken ==
    /\ Len(trace') = Len(trace) + 1
    /\ trace'[Len(trace')].op = "load"

\* C13: loading a save state that is malformed or lacks a key reports an
\* error and leaves pc, next_pc, the registers, hi, lo, the COP0 registers,
\* RAM and the cycle counter as they were.
C13_BadStateLeavesEngine ==
    [][(LoadTaken /\ trace'[Len(trace')].file # "saved")
         => /\ trace'[Len(trace')].reported
            /\ SavedFields(cpu', memory') = SavedFields(cpu, memory)]_vars


(***************************************************************************)
(* Save states with the execution worker running                           *)
(***************************************************************************)
MaxSnapshotStarts == 1   \* start_emulation calls in one behaviour

SnapshotNext ==
    \/ Starts < MaxSnapshotStarts /\ start_emulation
    \/ pause_emulation
    \/ RenderRead
    \/ RenderFps
    \/ save_state
    \/ load_state
    \/ \E w \in DOMAIN workers : WorkerWhile(w)
    \/ \E w \in DOMAIN workers : WorkerFor(w)
    \/ \E w \in DOMAIN workers : WorkerExecute(w)
    \/ \E w \in DOMAIN workers : WorkerUpdatePC(w)
    \/ \E w \in DOMAIN workers : WorkerCount(w)
    \/ \E w \in DOMAIN workers : WorkerTimer(w)
    \/ \E w \in DOMAIN workers : WorkerSleep(w)

SpecSnapshot == InitThreads /\ [][SnapshotNext]_vars

\* this transition is one save_state call
SaveTaken ==
    /\ Len(trace') = Len(trace) + 1
    /\ trace'[Len(trace')].op = "save"

\* C14: save_state and load_state run only while the execution loop is
\* halted: at a capture or a restore no worker is inside step().
C14_QuiesceThenSnapshot ==
    [][(SaveTaken \/ LoadTaken)
         => \A w \in DOMAIN workers : ~InStep(workers[w])]_vars


(***************************************************************************)
(* Loading cartridge images                                                *)
(***************************************************************************)
MaxRomLoads == 2    \* load_rom calls in one behaviour
MaxRomOps == 5      \* operations in one behaviour with load_rom

\* MIPSEMU.__init__: rom_header = None
NoHeader == [none |-> TRUE]

\* a cartridge in big-endian order: the header (magic, boot address), the
\* instruction ORI r1, r0, 0x44 at offset 0x40, zeros up to size bytes and
\* the bytes of tail after them
Cart(magic, boot, size, tail) ==
    [k \in 1..size |->
        IF k <= 4 THEN WordBytes(magic)[k]
        ELSE IF k \in 9..12 THEN WordBytes(boot)[k - 8]
        ELSE IF k \in 65..68 THEN WordBytes(ORI_r1)[k - 64]
        ELSE 0] \o tail

BOOT_TEST == W(\h8000, \h1000)
BOOT_ROM == W(\hB000, \h0040)

\* the content of a file that holds the cartridge cart in this byte order
InOrder(order, cart) ==
    CASE order = "little" -> swap_endian_n64(cart)
      [] order = "byteswap" -> swap_endian_v64(cart)
      [] OTHER -> cart

\* an image file: its name, the cartridge in big-endian order and its boot
\* address, the byte order of the file and the bytes of the file
File(name, order, boot, cart) ==
    [name |-> name, order |-> order, boot |-> boot, cart |-> cart,
     data |-> InOrder(order, cart)]

FullCart == Cart(MAGIC_Z64, BOOT_ROM, HEADER_READ, <<1, 2, 3, 4>>)

\* the image files a user can pick: a cartridge longer than the header
\* block in the three byte orders, a cartridge of one header and one
\* instruction, a file of another magic, a file shorter than a header and
\* a byte-swapped file of odd length
RomFiles ==
    { File("full.z64", "big", BOOT_ROM, FullCart),
      File("full.n64", "little", BOOT_ROM, FullCart),
      File("full.v64", "byteswap", BOOT_ROM, FullCart),
      File("test.z64", "big", BOOT_TEST, Cart(MAGIC_Z64, BOOT_TEST, 68, <<>>)),
      File("junk.bin", "big", BOOT_ROM, Cart(W(\h1234, \h5678), BOOT_ROM, 68, <<>>)),
      File("tiny.z64", "big", BOOT_ROM, Cart(MAGIC_Z64, BOOT_ROM, 12, <<>>)),
      [File("odd.v64", "byteswap", BOOT_ROM, Cart(MAGIC_Z64, BOOT_ROM, 68, <<>>))
          EXCEPT !.data = @ \o <<7>>] }

InitRom ==
    /\ cpu = MIPSCPU_init
    /\ memory = Memory_init
    /\ emulation_running = FALSE
    /\ rom_header = NoHeader
    /\ current_rom = None
    /\ state_file = NoFile
    /\ workers = <<>>
    /\ render = RenderIdle
    /\ trace = <<>>
    /\ boundaries = [seen |-> {Snap(MIPSCPU_init)}, closed |-> FALSE,
                     last |-> Snap(MIPSCPU_init)]

RomLoads == Cardinality({k \in DOMAIN trace : trace[k].op = "load_rom"})

\* MIPSEMU.load_rom of the file f: an exception of the header parser is
\* caught and reported before anything is assigned; an invalid header is
\* reported after self.rom_header was assigned; a valid one maps the
\* normalized header followed by the rest of the file
load_rom_file(f) ==
    IF ROMHeader_raises(f.data)
    THEN /\ trace' = Append(trace, [op |-> "load_rom", file |-> f.name,
                                    data |-> f.data, result |-> "raised"])
         /\ UNCHANGED <<rom_header, memory, current_rom>>
    ELSE \E h \in {ROMHeader(f.data)} :
           /\ rom_header' = h
           /\ IF ~h.valid
              THEN /\ trace' = Append(trace, [op |-> "load_rom", file |-> f.name,
                                              data |-> f.data, result |-> "invalid"])
                   /\ UNCHANGED <<memory, current_rom>>
              ELSE /\ memory' = Memory_load_rom(memory,
                          h.raw_data \o Suffix(f.data, Len(h.raw_data)))
                   /\ current_rom' = f.name
                   /\ trace' = Append(trace, [op |-> "load_rom", file |-> f.name,
                                              data |-> f.data, result |-> "loaded"])

load_rom ==
    /\ TkIdle
    /\ RomLoads < MaxRomLoads
    /\ \E f \in RomFiles : load_rom_file(f)
    /\ UNCHANGED <<cpu, emulation_running, state_file, workers, render, boundaries>>

\* start_emulation with a header object that parse left without its
\* fields: the flags are set and the CPU is reset, then reading
\* rom_header.boot_address raises and no worker is created
start_emulation_raises ==
    /\ TkIdle
    /\ current_rom # None
    /\ ~emulation_running
    /\ ~rom_header.fields
    /\ Starts < MaxStarts
    /\ emulation_running' = TRUE
    /\ cpu' = reset([cpu EXCEPT !.running = TRUE])
    /\ trace' = Append(trace, [op |-> "start_raised"])
    /\ UNCHANGED <<memory, rom_header, current_rom, state_file, workers, render,
                   boundaries>>

\* the worker of the latest start_emulation exists
WorkerStarted ==
    \E k \in DOMAIN trace :
        /\ trace[k].op = "start"
        /\ \A j \in DOMAIN trace : j > k => trace[j].op # "start_raised"

RomNext ==
    \/ Len(trace) < MaxRomOps /\ load_rom
    \/ Len(trace) < MaxRomOps /\ SeqStart
    \/ Len(trace) < MaxRomOps /\ start_emulation_raises
    \/ Len(trace) < MaxRomOps /\ WorkerStarted /\ SeqStep
    \/ Len(trace) < MaxRomOps /\ SeqPause

SpecRom == InitRom /\ [][RomNext]_vars


\* this transition is one load_rom call, and the history entry it leaves
LoadRomTaken ==
    /\ Len(trace') = Len(trace) + 1
    /\ trace'[Len(trace')].op = "load_rom"
Loaded == trace'[Len(trace')]

KnownMagic(data) == SeqWord(data, 0) \in {MAGIC_Z64, MAGIC_N64, MAGIC_V64}

\* C15: loading an image whose magic is none of the three known values
\* over a loaded image is reported and changes nothing: the header, the
\* mapped ROM, the current-ROM marker, the CPU and the memory are as before.
C15_InvalidImageMutatesNothing ==
    [][(LoadRomTaken /\ current_rom # None /\ ~KnownMagic(Loaded.data))
         => /\ Loaded.result # "loaded"
            /\ <<rom_header', memory', current_rom', cpu'>>
                 = <<rom_header, memory, current_rom, cpu>>]_vars

\* C16: the ROM mapped for a loaded image is the whole cartridge in
\* big-endian order, whatever the byte order of the file.
C16_WholeImageNormalized ==
    \A f \in RomFiles : current_rom = f.name => memory.rom = f.cart

\* C17: parsing a file that holds a header classifies the three magics as
\* big (bytes unchanged), little (bytes reversed in groups of four) and
\* byteswap (bytes swapped in pairs), the header valid and its first word
\* 0x80371240; any other magic gives an invalid header.
C17_HeaderClassification ==
    [][(LoadRomTaken /\ Len(Loaded.data) >= HEADER_MIN)
         => LET raw == Prefix(Loaded.data, HEADER_READ)
                magic == SeqWord(raw, 0)
                h == rom_header'
                valid(e) == /\ Loaded.result = "loaded"
                            /\ h.valid /\ h.endian = e
                            /\ Len(h.raw_data) = Len(raw)
                            /\ SeqWord(h.raw_data, 0) = MAGIC_Z64
            IN
            IF magic = MAGIC_Z64 THEN valid("big") /\ h.raw_data = raw
            ELSE IF magic = MAGIC_N64
            THEN /\ valid("little")
                 /\ \A g \in 0..((Len(raw) \div 4) - 1) : \A j \in 1..4 :
                        h.raw_data[4 * g + j] = raw[4 * g + 5 - j]
            ELSE IF magic = MAGIC_V64
            THEN /\ valid("byteswap")
                 /\ \A g \in 0..((Len(raw) \div 2) - 1) :
                        /\ h.raw_data[2 * g + 1] = raw[2 * g + 2]
                        /\ h.raw_data[2 * g + 2] = raw[2 * g + 1]
            ELSE Loaded.result = "invalid" /\ ~h.valid]_vars

\* this transition is one start_emulation call that found the engine halted
StartAttempt ==
    /\ Len(trace') = Len(trace) + 1
    /\ trace'[Len(trace')].op \in {"start", "start_raised"}

MaxMemOps == 2      \* write calls in one behaviour

\* offsets into RAM: inside, the last aligned word, the last three bytes
RamOffsets == {W(0, \h1000), W(\h007F, \hFFFC), W(\h007F, \hFFFD), W(\h007F, \hFFFF)}

\* the same RAM byte through the other window
Mirror(a) == IF Lt(a, W(\h0080, 0)) THEN Add(a, W(\hA000, 0)) ELSE Sub(a, W(\hA000, 0))

\* word-aligned addresses in SRAM, the MI registers, ROM (a whole word and
\* the last, partial word of the image) and outside every window; the byte
\* below SRAM and the last byte of the address space, both outside every
\* window
OtherAddrs ==
    {W(\h0800, 0), W(\h0430, \h0004), W(\hB000, 0), W(\h1000, \h0004), W(\h8000, 0),
     W(\hC000, 0), W(\h07FF, \hFFFF), W(\hFFFF, \hFFFF)}

MemAddrs == RamOffsets \cup {Mirror(a) : a \in RamOffsets} \cup OtherAddrs

ByteValues == {\h12, \hFF}
HalfValues == {\h1234}
WordValues == {W(\h1234, \h5678)}

\* a ROM of six bytes: one whole word and half a word
InitMem ==
    /\ cpu = MIPSCPU_init
    /\ memory = Memory_load_rom(Memory_init, <<\h80, \h37, \h12, \h40, \hAA, \hBB>>)
    /\ emulation_running = FALSE
    /\ rom_header = NoHeader
    /\ current_rom = None
    /\ state_file = NoFile
    /\ workers = <<>>
    /\ render = RenderIdle
    /\ trace = <<>>
    /\ boundaries = [seen |-> {Snap(MIPSCPU_init)}, closed |-> FALSE,
                     last |-> Snap(MIPSCPU_init)]

MemFrame ==
    UNCHANGED <<cpu, emulation_running, rom_header, current_rom, state_file,
                workers, render, boundaries>>

call_write_byte ==
    /\ Len(trace) < MaxMemOps
    /\ \E a \in MemAddrs, v \in ByteValues :
         /\ memory' = write_byte(memory, a, v)
         /\ trace' = Append(trace, [op |-> "write_byte", addr |-> a,
                                    value |-> W(0, v), width |-> 1])
    /\ MemFrame

call_write_half ==
    /\ Len(trace) < MaxMemOps
    /\ \E a \in MemAddrs, v \in HalfValues :
         /\ memory' = write_half(memory, a, v)
         /\ trace' = Append(trace, [op |-> "write_half", addr |-> a,
                                    value |-> W(0, v), width |-> 2])
    /\ MemFrame

call_write_word ==
    /\ Len(trace) < MaxMemOps
    /\ \E a \in MemAddrs, v \in WordValues :
         /\ memory' = write_word(memory, a, v)
         /\ trace' = Append(trace, [op |-> "write_word", addr |-> a,
                                    value |-> v, width |-> 4])
    /\ MemFrame

MemNext == call_write_byte \/ call_write_half \/ call_write_word

SpecMem == InitMem /\ [][MemNext]_vars

\* a read of this width, as an integer pair
ReadWidth(m, a, width) ==
    CASE width = 1 -> W(0, read_byte(m, a))
      [] width = 2 -> W(0, read_half(m, a))
      [] width = 4 -> read_word(m, a)

\* the last write, after the transition
Written == trace'[Len(trace')]

\* the two windows show the same bytes, halves and words of RAM
SameRam(m) ==
    \A a \in RamOffsets : \A width \in {1, 2, 4} :
        ReadWidth(m, a, width) = ReadWidth(m, Mirror(a), width)

\* C19 as stated: the two RAM windows read the same after any writes, and
\* a byte, half or word written through one window at any RAM offset is
\* read back through the other.
C19_RamMirror ==
    [][/\ SameRam(memory')
       /\ IsRdramAddr(Written.addr)
            => ReadWidth(memory', Mirror(Written.addr), Written.width)
                 = Written.value]_vars

\* C19 for accesses that lie inside RAM: the two RAM windows read the same
\* after any writes, and a byte, half or word written through one window
\* at a RAM offset of at most 0x800000 minus its width is read back through
\* the other.
C19_RamMirrorInside ==
    [][/\ SameRam(memory')
       /\ (/\ IsRdramAddr(Written.addr)
           /\ RamOffset(Written.addr) + Written.width <= RDRAM_SIZE)
            => ReadWidth(memory', Mirror(Written.addr), Written.width)
                 = Written.value]_vars

\* a word written through the uncached window over a byte written through
\* the cached one, read back through the cached window
C19_Witness ==
    /\ Len(trace) = 2
    /\ trace[1].op = "write_byte" /\ trace[1].addr = W(0, \h1000)
    /\ trace[2].op = "write_word" /\ trace[2].addr = W(\hA000, \h1000)
    /\ read_word(memory, W(0, \h1000)) = W(\h1234, \h5678)
    /\ read_byte(memory, W(\hA000, \h1003)) = \h78

\* read_word composed of four read_byte calls
ReadBytes(m, a) ==
    W(read_byte(m, a) * 256 + read_byte(m, AddN(a, 1)),
      read_byte(m, AddN(a, 2)) * 256 + read_byte(m, AddN(a, 3)))

\* write_word composed of four write_byte calls
WriteBytes(m, a, v) ==
    write_byte(write_byte(write_byte(write_byte(m, a, v[1] \div 256),
        AddN(a, 1), v[1] % 256), AddN(a, 2), v[2] \div 256), AddN(a, 3), v[2] % 256)

AlignedAddrs == {a \in MemAddrs : a[2] % 4 = 0}

\* C20: at every word-aligned address read_word is the big-endian
\* composition of four read_byte calls, and write_word leaves the memory
\* that four write_byte calls leave.
C20_WordAndBytePathsAgree ==
    [][/\ \A a \in AlignedAddrs : read_word(memory', a) = ReadBytes(memory', a)
       /\ (Written.op = "write_word" /\ Written.addr \in AlignedAddrs)
            => memory' = WriteBytes(memory, Written.addr, Written.value)]_vars

(***************************************************************************)
(* Accesses outside every window                                           *)
(***************************************************************************)
\* no branch of read_byte, read_word, write_byte or write_word takes addr
Unmapped(a) ==
    LET addr == Mask32(a) IN
    ~(IsRdramAddr(addr) \/ IsRomAddr(addr) \/ IsSramAddr(addr) \/ IsIoAddr(addr))

\* every byte of an access of this width is outside every window
AllUnmapped(a, width) == \A k \in 0..(width - 1) : Unmapped(AddN(a, k))

Widths == {1, 2, 4}

\* C21 as stated: a byte, half or word read at an address outside every
\* window returns 0, a write there changes no backing store, and neither
\* touches the CPU or the running flag.
C21_UnmappedAccess ==
    [][/\ \A a \in MemAddrs : \A width \in Widths :
            Unmapped(a) => ReadWidth(memory', a, width) = Zero
       /\ Unmapped(Written.addr) => memory' = memory
       /\ cpu' = cpu /\ emulation_running' = emulation_running]_vars

\* C21 for accesses that lie outside every window with all their bytes: a
\* byte, half or word read returns 0, a write changes no backing store,
\* and neither touches the CPU or the running flag.
C21_UnmappedAccessWhole ==
    [][/\ \A a \in MemAddrs : \A width \in Widths :
            AllUnmapped(a, width) => ReadWidth(memory', a, width) = Zero
       /\ AllUnmapped(Written.addr, Written.width) => memory' = memory
       /\ cpu' = cpu /\ emulation_running' = emulation_running]_vars

\* a word written outside every window after a byte written to RAM: the
\* RAM byte is kept and the word reads as 0
C21_Witness ==
    /\ Len(trace) = 2
    /\ trace[1].op = "write_byte" /\ trace[1].addr = W(0, \h1000)
    /\ trace[2].op = "write_word" /\ trace[2].addr = W(\h8000, 0)
    /\ read_byte(memory, W(0, \h1000)) = trace[1].value[2]
    /\ read_word(memory, W(\h8000, 0)) = Zero

(***************************************************************************)
(* Writes and stores at ROM addresses                                      *)
(***************************************************************************)
SB_ROM == EncI(40, 3, 1, \h0040)     \* SB r1, 0x40(r3)
SH_ROM == EncI(41, 3, 1, \h0042)     \* SH r1, 0x42(r3)
SW_ROM == EncI(43, 3, 1, \h0048)     \* SW r1, 0x48(r3)
LL_ROM == EncI(48, 3, 2, \h0040)     \* LL r2, 0x40(r3)
SC_ROM == EncI(56, 3, 1, \h0040)     \* SC r1, 0x40(r3)

\* r1 = 0x44, r3 = 0xB0000000 (the ROM window), then a store of each width
\* into the image and LL on its first instruction
RomStorePrefix == <<ORI_r1, LUI_r3, SB_ROM, SH_ROM, SW_ROM, LL_ROM>>

\* SC on the linked word and on another word of the image
RomStoreMenu == {SC_ROM, EncI(56, 3, 1, \h0044)}

\* the addresses of the write calls: both ROM windows and a RAM byte
RomStoreAddrs == {a \in MemAddrs : IsRomAddr(a)} \cup {W(0, \h1000)}

\* the files loaded over the image
RomStoreFiles == {"test.z64", "junk.bin"}

InitRomStore == InitWith(RomStorePrefix, RomStoreMenu, 1)

\* write calls and load_rom calls come first (call_write_* bound the length
\* of the history themselves), in any order with the start and the steps
RomStoreNext ==
    \/ SeqStart
    \/ SeqStep
    \/ call_write_byte /\ Written.addr \in RomStoreAddrs
    \/ call_write_half /\ Written.addr \in RomStoreAddrs
    \/ call_write_word /\ Written.addr \in RomStoreAddrs
    \/ Len(trace) < MaxMemOps /\ load_rom /\ Loaded.file \in RomStoreFiles

SpecRomStore == InitRomStore /\ [][RomStoreNext]_vars

\* C22: no write_byte, write_half or write_word call and no step() (SB, SH,
\* SW and SC among them) changes a byte of the mapped ROM image or its
\* size; only load_rom replaces it.
C22_RomReadOnly ==
    [][~LoadRomTaken
         => /\ memory'.rom = memory.rom
            /\ memory'.rom_size = memory.rom_size]_vars

\* a word was written at a ROM address by a call, SB, SH and SW into the
\* image have executed, and so has an SC that reported success on it: the
\* image still holds the SB instruction where SB and SC stored 0x44
C22_Witness ==
    /\ \E k \in DOMAIN trace :
          trace[k].op = "write_word" /\ trace[k].addr = W(\hB000, 0)
    /\ \A i \in {SB_ROM, SH_ROM, SW_ROM} :
          \E k \in DOMAIN trace : trace[k].op = "step" /\ trace[k].instr = i
    /\ LastIsStep /\ LastInstr = SC_ROM /\ LastAddr = W(\hB000, \h0040)
    /\ cpu.registers[1] = One
    /\ read_word(memory, W(\hB000, \h0040)) = EncJ(2, 17)
    /\ memory.rom_size = Len(memory.rom)

(***************************************************************************)
(* COP0.write                                                              *)
(***************************************************************************)
MaxCop0Writes == 2      \* COP0.write calls in one behaviour

\* register numbers: Index, Random, Compare, Status, Cause, and numbers
\* above 31 that name Index, Random and Compare
Cop0Regs == {0, COP0_RANDOM, COP0_COMPARE, COP0_STATUS, COP0_CAUSE, 32, 33, 43}

\* values: 0, the largest Index, one above it, the timer bit of Cause, a
\* value with bits in both halves, all ones
Cop0Values ==
    {Zero, W(0, \h3F), W(0, \h40), W(0, \h8000), W(\h1234, \h5678),
     W(\hFFFF, \hFFFF)}

\* cpu.cop0.write(reg, value)
COP0_write_call ==
    /\ Len(trace) < MaxCop0Writes
    /\ \E reg \in Cop0Regs, v \in Cop0Values :
         /\ cpu' = [cpu EXCEPT !.cop0 = COP0_write(@, reg, v)]
         /\ trace' = Append(trace, [op |-> "cop0_write", reg |-> reg, value |-> v])
    /\ UNCHANGED <<memory, emulation_running, rom_header, current_rom,
                   state_file, workers, render, boundaries>>

SpecCop0 == InitMem /\ [][COP0_write_call]_vars

\* bit 15 of a 32-bit value
TimerBit(v) == (v[2] \div \h8000) % 2

\* C23: COP0.write on register reg & 0x1F stores v & 0x3F for Index,
\* nothing for Random, v for Compare with bit 15 of Cause cleared and v
\* for every other register; the registers other than the target (and
\* Cause for a Compare write) keep their values; Random stays 0 and Index
\* below 64.
C23_Cop0Write ==
    [][LET reg == Written.reg % 32
           v == Written.value
       IN /\ reg = 0 => cpu'.cop0[0] = W(0, v[2] % 64)
          /\ reg = COP0_RANDOM => cpu'.cop0 = cpu.cop0
          /\ reg = COP0_COMPARE =>
                /\ cpu'.cop0[COP0_COMPARE] = v
                /\ cpu'.cop0[COP0_CAUSE] =
                     W(cpu.cop0[COP0_CAUSE][1],
                       cpu.cop0[COP0_CAUSE][2]
                          - \h8000 * TimerBit(cpu.cop0[COP0_CAUSE]))
          /\ reg \notin {0, COP0_RANDOM, COP0_COMPARE} => cpu'.cop0[reg] = v
          /\ \A r \in 0..31 :
                (r # reg /\ ~(reg = COP0_COMPARE /\ r = COP0_CAUSE))
                    => cpu'.cop0[r] = cpu.cop0[r]
          /\ cpu'.cop0[COP0_RANDOM] = Zero
          /\ Lt(cpu'.cop0[0], W(0, 64))]_vars

\* Cause was written with its timer bit set, then Compare was written: the
\* bit is clear and Compare holds the value
C23_Witness ==
    /\ Len(trace) = 2
    /\ trace[1].reg = COP0_CAUSE /\ trace[1].value = W(\hFFFF, \hFFFF)
    /\ trace[2].reg = 43 /\ trace[2].value = W(\h1234, \h5678)
    /\ cpu.cop0[COP0_CAUSE] = W(\hFFFF, \h7FFF)
    /\ cpu.cop0[COP0_COMPARE] = W(\h1234, \h5678)

(***************************************************************************)
(* reset()                                                                 *)
(***************************************************************************)
\* the boot condition of the CPU
BootCondition(c) ==
    /\ c.pc = W(\hA400, \h0040) /\ c.next_pc = W(\hA400, \h0044)
    /\ \A r \in 0..31 : c.registers[r] = Zero
    /\ c.hi = Zero /\ c.lo = Zero
    /\ c.instructions_executed = 0 /\ c.cycles = 0
    /\ ~c.branch_delay /\ ~c.load_delay /\ ~c.llbit /\ ~c.exception_pending
    /\ \A r \in 0..31 :
          c.cop0[r] = IF r = 15 THEN W(0, \h0B00)
                      ELSE IF r = 12 THEN W(\h3400, 0) ELSE Zero

\* C24: reset() in any reachable state yields the boot condition (PC
\* 0xA4000040, next_pc 0xA4000044, registers, HI, LO and counters 0, no
\* pending branch delay, load delay, link or exception, COP0 zero except
\* PRId = 0xB00 and Status = 0x34000000), a second reset() changes nothing,
\* and the CPU a start_emulation leaves differs from it in the PC only.
C24_Reset ==
    [][/\ BootCondition(reset(cpu'))
       /\ reset(reset(cpu')) = reset(cpu')
       /\ StartTaken => BootCondition([cpu' EXCEPT !.pc = W(\hA400, \h0040)])]_vars

\* the engine was started again after a SYSCALL wrote EPC and Cause and
\* set the pending flag: the restart found none of it
C24_Witness ==
    /\ \E k \in DOMAIN trace : trace[k].op = "step" /\ IsSYSCALL(trace[k].instr)
    /\ \E k \in DOMAIN trace : trace[k].op = "pause"
    /\ trace[Len(trace)].op = "start"
    /\ cpu.cop0 = COP0_init /\ ~cpu.exception_pending
    /\ cpu.registers[1] = Zero

(***************************************************************************)
(* Arithmetic and accesses that raise nothing                              *)
(***************************************************************************)
ADDIU_r3 == EncI(9, 0, 3, \hFFFF)      \* ADDIU r3, r0, -1

\* r1 = 0x44, r2 = 0x80000000 (an address outside every window),
\* r3 = 0xFFFFFFFF, HI = LO = 0x44
ArithPrefix == <<ORI_r1, LUI_r2, ADDIU_r3, MTHI_r1, MTLO_r1>>

\* DIV, DIVU, DDIV, DDIVU by register 0 and by r1
DivMenu ==
    { EncR(rs, rt, 0, 0, f) : rs \in {1, 3}, rt \in {0, 1}, f \in {26, 27, 30, 31} }

\* SC without a link; loads (LB, LH, LW, LBU, LHU, LWR, LWU, LL) and
\* stores (SB, SH, SW, SC) at 0x80000000; SYSCALL and BREAK
QuietMenu ==
    { EncI(56, 0, 1, \h1000) }
    \cup { EncI(op, 2, 4, 0) : op \in {32, 33, 35, 36, 37, 38, 39, 48} }
    \cup { EncI(op, 2, 1, 0) : op \in {40, 41, 43, 56} }
    \cup { SYSCALL, BREAK }

\* MULT, MULTU, DMULT, DMULTU of the operands 0x44, 0x80000000, 0xFFFFFFFF
\* in every order, and of 0 by 0xFFFFFFFF
MulPairs == ({1, 2, 3} \X {1, 2, 3}) \cup {<<0, 3>>}
MulMenu == { EncR(p[1], p[2], 0, 0, f) : p \in MulPairs, f \in {24, 25, 28, 29} }

\* ADDI, ADDIU, DADDI, DADDIU of 0, 0x44, 0x80000000 and 0xFFFFFFFF with the
\* immediates 1, 0x7FFF, 0x8000 and 0xFFFF; ADDIU with destination 0
AddiMenu ==
    { EncI(op, rs, 4, imm) : op \in {8, 9, 24, 25}, rs \in 0..3,
                             imm \in {1, \h7FFF, \h8000, \hFFFF} }
    \cup { EncI(9, 1, 0, 1) }

ArithMenu == DivMenu \cup QuietMenu \cup MulMenu \cup AddiMenu

InitArith == InitWith(ArithPrefix, ArithMenu, 1)
SpecArith == InitArith /\ [][SeqNext]_vars

IsDivide(i) == \E f \in {26, 27, 30, 31} : IsSPECIAL(i, f)
IsAccess(i) == Opcode(i) \in {32, 33, 35, 36, 37, 38, 39, 40, 41, 43, 48, 56}

\* the instruction this step() fetches is a division by zero, an SC whose
\* link does not hold, a load or store outside every window, SYSCALL or
\* BREAK
QuietCondition ==
    \/ IsDivide(Fetched) /\ R(Here, Rt(Fetched)) = Zero
    \/ IsSC(Fetched) /\ ~(cpu.llbit /\ EffAddr(Here, Fetched) = cpu.lladdr)
    \/ IsAccess(Fetched) /\ Unmapped(EffAddr(Here, Fetched))
    \/ IsSYSCALL(Fetched) \/ IsBREAK(Fetched)

\* C25: a step() that executes a division by zero, a failing SC, a load or
\* store at an unmapped address, SYSCALL or BREAK leaves the engine
\* running and advances both step counters by exactly one.
C25_QuietConditions ==
    [][(StepTaken /\ QuietCondition)
         => /\ cpu'.running /\ emulation_running'
            /\ cpu'.instructions_executed = cpu.instructions_executed + 1
            /\ cpu'.cycles = cpu.cycles + 1]_vars

\* a BREAK has just executed: the engine runs, at the exception vector
C25_Witness ==
    /\ LastIsStep /\ IsBREAK(LastInstr)
    /\ cpu.running /\ emulation_running
    /\ cpu.exception_pending /\ cpu.instructions_executed = 7

\* C26: a step() that executes DIV, DIVU, DDIV or DDIVU with a divisor
\* register of 0 leaves HI and LO, EPC, the exception code of Cause and
\* the pending flag as they were, and the PC advances to next_pc.
C26_DivideByZero ==
    [][(StepTaken /\ IsDivide(Fetched) /\ R(Here, Rt(Fetched)) = Zero)
         => /\ cpu'.hi = cpu.hi /\ cpu'.lo = cpu.lo
            /\ cpu'.cop0[COP0_EPC] = cpu.cop0[COP0_EPC]
            /\ ExcCode(cpu'.cop0) = ExcCode(cpu.cop0)
            /\ cpu'.exception_pending = cpu.exception_pending
            /\ cpu'.pc = cpu.next_pc
            /\ cpu'.next_pc = AddN(cpu'.pc, 4)]_vars

\* DDIV of 0xFFFFFFFF by register 0 has just executed: HI and LO hold the
\* 0x44 that MTHI and MTLO stored
C26_Witness ==
    /\ LastIsStep /\ LastInstr = EncR(3, 0, 0, 0, 30)
    /\ cpu.registers[3] = W(\hFFFF, \hFFFF)
    /\ cpu.hi = W(0, \h44) /\ cpu.lo = W(0, \h44)
    /\ ~cpu.exception_pending

(***************************************************************************)
(* Products, checked by their residues                                     *)
(***************************************************************************)
\* five primes below 2^15 whose product exceeds 2^64: two values in
\* [0, 2^64) with the same residues for all of them are equal
Moduli == {32749, 32719, 32717, 32713, 32707}

\* the residues of 2^32 and 2^64
Two32(m) == ((B16 % m) * (B16 % m)) % m
Two64(m) == (Two32(m) * Two32(m)) % m

\* the residue of a value in [0, 2^32)
Residue(a, m) == ((a[1] % m) * (B16 % m) + a[2]) % m

\* the residue of hi * 2^32 + lo
Residue64(hi, lo, m) == (Residue(hi, m) * Two32(m) + Residue(lo, m)) % m

\* bit 31 of a value in [0, 2^32)
SignBit(a) == a[1] \div \h8000

\* the residue of a read as a signed 32-bit integer
SignedResidue(a, m) == (Residue(a, m) + m - SignBit(a) * Two32(m)) % m

\* the residue of the 64-bit two's-complement product of a and b read as
\* signed integers: the product, plus 2^64 when it is negative
SignedProductResidue(a, b, m) ==
    LET negative == a # Zero /\ b # Zero /\ SignBit(a) # SignBit(b)
    IN (SignedResidue(a, m) * SignedResidue(b, m)
          + (IF negative THEN Two64(m) ELSE 0)) % m

\* the residue of the product of a and b read as unsigned integers
UnsignedProductResidue(a, b, m) == (Residue(a, m) * Residue(b, m)) % m

Is32(a) == a[1] \in 0..(B16 - 1) /\ a[2] \in 0..(B16 - 1)

IsMultiply(i) == \E f \in {24, 25, 28, 29} : IsSPECIAL(i, f)

\* C27: MULT and DMULT leave in HI:LO the 64-bit two's-complement product
\* of the operands read as signed 32-bit integers, MULTU and DMULTU the
\* product of the operands read as unsigned, LO the low and HI the high 32
\* bits.
C27_Multiply ==
    [][(StepTaken /\ IsMultiply(Fetched))
         => LET a == R(Here, Rs(Fetched))
                b == R(Here, Rt(Fetched))
            IN /\ Is32(cpu'.hi) /\ Is32(cpu'.lo)
               /\ \A m \in Moduli :
                     Residue64(cpu'.hi, cpu'.lo, m) =
                        IF Funct(Fetched) \in {24, 28}
                        THEN SignedProductResidue(a, b, m)
                        ELSE UnsignedProductResidue(a, b, m)]_vars

\* MULT of 0xFFFFFFFF by 0xFFFFFFFF has just executed: LO = 1, HI = 0
C27_Witness ==
    /\ LastIsStep /\ LastInstr = EncR(3, 3, 0, 0, 24)
    /\ cpu.registers[3] = W(\hFFFF, \hFFFF)
    /\ cpu.lo = One /\ cpu.hi = Zero

(***************************************************************************)
(* Immediate additions                                                     *)
(***************************************************************************)
IsAddImmediate(i) == Opcode(i) \in {8, 9, 24, 25}

\* (r + i) mod 2^32 for the 16-bit immediate i read as a signed integer
SignedSum(r, i) ==
    Mask32(IF i >= \h8000 THEN Sub(r, W(0, B16 - i)) ELSE Add(r, W(0, i)))

\* C28: ADDI, ADDIU, DADDI and DADDIU set rt (a register other than
\* register 0, which stays 0) to (rs + sign-extended immediate) mod 2^32;
\* from 0 the immediate 0x8000 gives 0xFFFF8000 and 0x7FFF gives
\* 0x00007FFF.
C28_AddImmediate ==
    [][(StepTaken /\ IsAddImmediate(Fetched) /\ Rt(Fetched) # 0)
         => /\ cpu'.registers[Rt(Fetched)] =
                  SignedSum(R(Here, Rs(Fetched)), Imm(Fetched))
            /\ (R(Here, Rs(Fetched)) = Zero /\ Imm(Fetched) = \h8000)
                  => cpu'.registers[Rt(Fetched)] = W(\hFFFF, \h8000)
            /\ (R(Here, Rs(Fetched)) = Zero /\ Imm(Fetched) = \h7FFF)
                  => cpu'.registers[Rt(Fetched)] = W(0, \h7FFF)]_vars

\* ADDIU r4, r3, 0x8000 has just executed with r3 = 0xFFFFFFFF: the sum
\* wrapped to 0xFFFF7FFF
C28_Witness ==
    /\ LastIsStep /\ LastInstr = EncI(9, 3, 4, \h8000)
    /\ cpu.registers[3] = W(\hFFFF, \hFFFF)
    /\ cpu.registers[4] = W(\hFFFF, \h7FFF)

(***************************************************************************)
(* The width of the PC, the registers, HI and LO                           *)
(***************************************************************************)
\* r1 = 0xFFFFFFFC, the last word of the address space
WrapPrefix == <<EncI(9, 0, 1, \hFFFC)>>

\* JR r1 and JALR r4, r1 to that word; JAL, BLTZAL and BGEZAL inside the
\* image; NOP
WrapMenu ==
    { EncR(1, 0, 0, 0, 8), EncR(1, 0, 4, 0, 9), EncJ(3, 20),
      EncI(1, 1, 16, 3), EncI(1, 0, 17, 3), NOP }

InitWrap == InitWith(WrapPrefix, WrapMenu, 1)
SpecWrap == InitWrap /\ [][SeqNext]_vars

\* C29: between step() calls the PC, next_pc, the 32 general registers,
\* HI and LO are values in [0, 2^32), also when the PC advances past
\* 0xFFFFFFFC and after the links of JAL, JALR, BLTZAL and BGEZAL.
C29_ThirtyTwoBits ==
    /\ Is32(cpu.pc) /\ Is32(cpu.next_pc)
    /\ \A r \in 0..31 : Is32(cpu.registers[r])
    /\ Is32(cpu.hi) /\ Is32(cpu.lo)

(***************************************************************************)
(* next_pc at the boundaries between step() calls                          *)
(***************************************************************************)
\* C30: before the first step() and after every step(), also right after
\* start_emulation has set the PC to the boot address, next_pc = PC + 4.
C30_NextPcFollowsPc == cpu.next_pc = AddN(cpu.pc, 4)

(***************************************************************************)
(* The latency of loads                                                    *)
(***************************************************************************)
IsLoad(i) == Opcode(i) \in {32, 33, 35, 36, 37, 39, 48}

\* the value of register r the instruction of the next step() reads: the
\* register file after the load-delay commit at the start of that step()
Visible(c, r) ==
    IF c.load_delay /\ c.load_reg = r THEN c.load_value ELSE c.registers[r]

\* C31: the value loaded by LB, LH, LW, LBU, LHU, LWU or LL into rt is not
\* visible to the instruction of the next step(), which reads the value
\* rt had before the load.
C31_LoadDelay ==
    [][(StepTaken /\ IsLoad(Fetched) /\ Rt(Fetched) # 0)
         => Visible(cpu', Rt(Fetched)) = cpu.registers[Rt(Fetched)]]_vars

(***************************************************************************)
(* Count, Compare and the timer bit of Cause                               *)
(***************************************************************************)
ORI_r2_3 == EncI(13, 0, 2, 3)                        \* ORI r2, r0, 3
MTC0_r1_COMPARE == EncCop0(4, 1, COP0_COMPARE, 0)
MTC0_r2_COMPARE == EncCop0(4, 2, COP0_COMPARE, 0)
MTC0_r3_COMPARE == EncCop0(4, 3, COP0_COMPARE, 0)
MTC0_r3_COUNT == EncCop0(4, 3, COP0_COUNT, 0)

\* r1 = 0x44, r2 = 3, r3 = 0xFFFFFFFF
TimerPrefix == <<ORI_r1, ORI_r2_3, ADDIU_r3>>

\* writes of Compare (a value Count does not reach, the value Count has
\* after six steps, the value before the wrap), a write of Count that
\* brings it to the wrap, SYSCALL, NOP
TimerMenu ==
    { NOP, SYSCALL, MTC0_r1_COMPARE, MTC0_r2_COMPARE, MTC0_r3_COMPARE,
      MTC0_r3_COUNT }

InitTimer == InitWith(TimerPrefix, TimerMenu, ProgLen + 1)
SpecTimer == InitTimer /\ [][SeqNext]_vars

IsMTC0(i, rd) == Opcode(i) = 16 /\ Rs(i) = 4 /\ Rd(i) = rd

\* a step() since the last start has executed MTC0 to Count
CountWritten(h) ==
    \E k \in DOMAIN h :
        /\ h[k].op = "step" /\ IsMTC0(h[k].instr, COP0_COUNT)
        /\ \A j \in DOMAIN h : j > k => h[j].op # "start"

\* C32: a step() that does not execute MTC0 to Count leaves Count as it
\* was after an odd number of cycles and one higher, modulo 2^32, after an
\* even number; with no MTC0 to Count since the reset, Count after n steps
\* is floor(n / 2).
C32_CountEverySecondCycle ==
    [][(StepTaken /\ ~IsMTC0(Fetched, COP0_COUNT))
         => /\ cpu'.cop0[COP0_COUNT] =
                  IF cpu'.cycles % 2 = 0
                  THEN Mask32(AddN(cpu.cop0[COP0_COUNT], 1))
                  ELSE cpu.cop0[COP0_COUNT]
            /\ ~CountWritten(trace')
                  => cpu'.cop0[COP0_COUNT] = W(0, cpu'.instructions_executed \div 2)]_vars

\* eight steps without a write of Count: Count is 4
C32_Witness ==
    /\ ~CountWritten(trace)
    /\ cpu.instructions_executed = 8 /\ cpu.cycles = 8
    /\ cpu.cop0[COP0_COUNT] = W(0, 4)

\* C33: whenever a step() returns with Count equal to Compare, bit 15 of
\* Cause is set; the PC, next_pc, EPC and the exception code of Cause after
\* the step are those the instruction and the PC update produced.
C33_CompareMatch ==
    [][StepTaken
         => \E c1 \in {StepUpdatePC(StepExecute(Here).cpu)} :
              /\ cpu'.cop0[COP0_COUNT] = cpu'.cop0[COP0_COMPARE]
                    => TimerBit(cpu'.cop0[COP0_CAUSE]) = 1
              /\ cpu'.pc = c1.pc /\ cpu'.next_pc = c1.next_pc
              /\ cpu'.cop0[COP0_EPC] = c1.cop0[COP0_EPC]
              /\ ExcCode(cpu'.cop0) = ExcCode(c1.cop0)]_vars

\* Compare was written with 3 while Count was 2, which cleared the bit; the
\* next step() brought Count to 3 and set it, and the PC went on by 4
C33_Witness ==
    /\ LastIsStep /\ Len(trace) > 1
    /\ trace[Len(trace) - 1].op = "step"
    /\ trace[Len(trace) - 1].instr = MTC0_r2_COMPARE
    /\ cpu.instructions_executed = 6
    /\ cpu.cop0[COP0_COUNT] = W(0, 3) /\ cpu.cop0[COP0_COMPARE] = W(0, 3)
    /\ TimerBit(cpu.cop0[COP0_CAUSE]) = 1
    /\ cpu.pc = AddN(trace[Len(trace)].pc, 4)
    /\ ~cpu.exception_pending

\* C34 as stated: when a step() that executes MTC0 to Compare returns,
\* Compare holds the written value and bit 15 of Cause is 0.
C34_CompareWriteClears ==
    [][(StepTaken /\ IsMTC0(Fetched, COP0_COMPARE))
         => /\ cpu'.cop0[COP0_COMPARE] = R(Here, Rt(Fetched))
            /\ TimerBit(cpu'.cop0[COP0_CAUSE]) = 0]_vars

\* C34 with the compare match of the same step(): when a step() that
\* executes MTC0 to Compare returns, Compare holds the written value and
\* bit 15 of Cause is 0, unless Count then equals the written value, in
\* which case the bit is set.
C34_CompareWriteClearsUnlessMatch ==
    [][(StepTaken /\ IsMTC0(Fetched, COP0_COMPARE))
         => /\ cpu'.cop0[COP0_COMPARE] = R(Here, Rt(Fetched))
            /\ TimerBit(cpu'.cop0[COP0_CAUSE]) =
                  IF cpu'.cop0[COP0_COUNT] = cpu'.cop0[COP0_COMPARE] THEN 1 ELSE 0]_vars

\* MTC0 of 0x44 to Compare has just executed as the fifth step: the bit,
\* set since the first step (Count = Compare = 0), is clear
C34_Witness ==
    /\ LastIsStep /\ LastInstr = MTC0_r1_COMPARE
    /\ cpu.instructions_executed = 5
    /\ cpu.cop0[COP0_COMPARE] = W(0, \h44)
    /\ cpu.cop0[COP0_COUNT] = W(0, 2)
    /\ TimerBit(cpu.cop0[COP0_CAUSE]) = 0

(***************************************************************************)
(* Cancellation: the worker after pause_emulation or stop_emulation        *)
(***************************************************************************)
\* one move of worker w of emulation_loop, from the places where it stands
WorkerMove(w) ==
    /\ w \in DOMAIN workers
    /\ \/ WorkerWhile(w)
       \/ WorkerFor(w)
       \/ WorkerExecute(w)
       \/ WorkerUpdatePC(w)
       \/ WorkerCount(w)
       \/ WorkerTimer(w)
       \/ WorkerSleep(w)

CancelNext ==
    \/ Starts < MaxSnapshotStarts /\ start_emulation
    \/ pause_emulation
    \/ stop_emulation
    \/ RenderRead
    \/ RenderFps /\ cpu' = cpu
    \/ \E w \in DOMAIN workers : WorkerWhile(w)
    \/ \E w \in DOMAIN workers : WorkerFor(w)
    \/ \E w \in DOMAIN workers : WorkerExecute(w)
    \/ \E w \in DOMAIN workers : WorkerUpdatePC(w)
    \/ \E w \in DOMAIN workers : WorkerCount(w)
    \/ \E w \in DOMAIN workers : WorkerTimer(w)
    \/ \E w \in DOMAIN workers : WorkerSleep(w)

\* every thread created by start_emulation is scheduled again and again
\* (the threads of the interpreter take turns, and time.sleep returns)
SpecCancel ==
    /\ InitThreads
    /\ [][CancelNext]_vars
    /\ \A w \in 1..MaxSnapshotStarts : WF_vars(WorkerMove(w))

\* emulation_loop has returned in every worker
AllDone == \A w \in DOMAIN workers : workers[w].at = "done"

\* worker w moves in this transition
WorkerMoved(w) == w \in DOMAIN workers /\ workers'[w] # workers[w]

\* C35: after pause_emulation or stop_emulation, with no start following,
\* every worker eventually terminates for good; while the flags are down a
\* worker that is not inside step() enters no step() and changes neither
\* the CPU (COP0 included) nor memory, so only the step() it had in
\* progress completes.
C35_WorkerTerminates ==
    /\ [][\A w \in DOMAIN workers :
            (~cpu.running /\ WorkerMoved(w) /\ ~InStep(workers[w]))
               => /\ cpu' = cpu /\ memory' = memory
                  /\ ~InStep(workers'[w])
                  /\ Steps' = Steps]_vars
    /\ <>[](~emulation_running) => <>[]AllDone

\* pause_emulation or stop_emulation has found a worker inside step(): the
\* flags are down and the step in progress is about to complete
C35_Witness ==
    /\ ~emulation_running /\ ~cpu.running
    /\ \E w \in DOMAIN workers : workers[w].at = "timer"

(***************************************************************************)
(* The targets of branches and jumps                                       *)
(***************************************************************************)
\* an image whose header names the first word of the program as the boot
\* address, so that the program's own first instruction is the first one
\* executed after start_emulation
InitBootBranch ==
    \E prog \in Programs(<<>>, BranchMenu, 1) :
      \E image \in {[Image(W(\hB000, \h0044), prog) EXCEPT ![12] = \h44]} :
        /\ cpu = MIPSCPU_init
        /\ memory = Memory_load_rom(Memory_init, image)
        /\ emulation_running = FALSE
        /\ rom_header = ROMHeader(image)
        /\ current_rom = "image.z64"
        /\ state_file = NoFile
        /\ workers = <<>>
        /\ render = RenderIdle
        /\ trace = <<>>
        /\ boundaries = [seen |-> {Snap(MIPSCPU_init)}, closed |-> FALSE,
                         last |-> Snap(MIPSCPU_init)]

SpecBootBranch == InitBootBranch /\ [][SeqNext]_vars

IsConditionalBranch(i) ==
    \/ Opcode(i) \in {4, 5, 6, 7}
    \/ Opcode(i) = 1 /\ Rt(i) \in {0, 1, 16, 17}

IsJump(i) == Opcode(i) \in {2, 3}

\* (A + 4 + 4 * signed(i)) mod 2^32
StatedBranchTarget(A, i) ==
    Mask32(IF i < \h8000 THEN Add(AddN(A, 4), Norm(0, 4 * i))
           ELSE Sub(AddN(A, 4), Norm(0, 4 * (B16 - i))))

\* (A & 0xF0000000) | (f << 2), f being the low 26 bits of the instruction
StatedJumpTarget(A, i) ==
    LET f == W(i[1] % 1024, i[2]) IN
    W(((A[1] \div \h1000) % 16) * \h1000 + 4 * f[1] + (f[2] \div \h4000),
      (4 * f[2]) % B16)

\* C36: a conditional branch at A with immediate i arms the target
\* (A + 4 + 4 * signed(i)) mod 2^32; J and JAL at A with field f arm
\* (A & 0xF0000000) | (f << 2); an untaken branch arms nothing and the PC
\* becomes A + 4.
C36_BranchTargets ==
    [][StepTaken
         => /\ IsConditionalBranch(Fetched)
               => IF Written.branched
                  THEN Written.target = StatedBranchTarget(cpu.pc, Imm(Fetched))
                  ELSE cpu'.pc = AddN(cpu.pc, 4)
            /\ IsJump(Fetched)
               => /\ Written.branched
                  /\ Written.target = StatedJumpTarget(cpu.pc, Fetched)]_vars

(***************************************************************************)
(* step() on a CPU that is not running                                     *)
(***************************************************************************)
\* worker w calls cpu.step() in this transition while running is False:
\* it had passed the test of the for loop before the flags went down
StepCalledStopped(w) ==
    /\ w \in DOMAIN workers
    /\ workers[w].at = "call"
    /\ ~cpu.running
    /\ WorkerMoved(w)

\* C37: a step() call made while running is False changes nothing: the
\* whole CPU record (PC, next_pc, registers, HI, LO, COP0, counters, the
\* delay, link and exception flags) and memory are as before, and the call
\* has returned.
C37_StoppedStepChangesNothing ==
    [][\A w \in 1..MaxSnapshotStarts :
          StepCalledStopped(w)
             => /\ cpu' = cpu
                /\ memory' = memory
                /\ ~InStep(workers'[w])
                /\ Steps' = Steps]_vars

\* a step() call has returned to the for loop of a worker, the CPU is not
\* running and no step was ever executed: the call found running False
C37_Witness ==
    /\ ~cpu.running
    /\ Steps = 0
    /\ \E w \in DOMAIN workers : workers[w].at = "for" /\ workers[w].i = 1
    /\ cpu.cycles = 0 /\ cpu.pc = rom_header.boot_address

(***************************************************************************)
(* The addresses from 0x80000000 up to 0xA0000000                          *)
(***************************************************************************)
LUI_r4 == EncI(15, 0, 4, \hA000)
ORI_r6_VECTOR == EncI(13, 2, 6, \h0180)
SW_RAM_0180 == EncI(43, 0, 1, \h0180)

\* r1 = 0x44, r2 = 0x80000000, r4 = 0xA0000000, r6 = 0x80000180, and the
\* word 0x44 in RAM at offset 0x180
Kseg0Prefix == <<ORI_r1, LUI_r2, LUI_r4, ORI_r6_VECTOR, SW_RAM_0180>>

Kseg0Menu ==
    { EncI(43, 2, 1, \h0180), EncI(35, 2, 1, \h0180),    \* SW, LW at 0x80000180
      EncI(40, 4, 1, \hFFFF), EncI(36, 4, 1, \hFFFF),    \* SB, LBU at 0x9FFFFFFF
      EncI(41, 4, 1, \hFFFF), EncI(37, 4, 1, \hFFFF),    \* SH, LHU at 0x9FFFFFFF
      EncI(41, 4, 1, \hFFFE), EncI(37, 4, 1, \hFFFE),    \* SH, LHU at 0x9FFFFFFE
      EncR(6, 0, 0, 0, 8),                               \* JR r6
      SYSCALL }

InitKseg0 == InitWith(Kseg0Prefix, Kseg0Menu, 2)
SpecKseg0 == InitKseg0 /\ [][SeqNext]_vars

\* 0x80000000 <= a < 0xA0000000
InKseg0(a) == ~Lt(a, W(\h8000, 0)) /\ Lt(a, W(\hA000, 0))

AccessWidth(i) ==
    IF Opcode(i) \in {32, 36, 40} THEN 1
    ELSE IF Opcode(i) \in {33, 37, 41} THEN 2 ELSE 4

IsPlainLoad(i) == Opcode(i) \in {32, 33, 35, 36, 37, 39}

\* C38 as stated: a byte, half or word load at an address in
\* [0x80000000, 0xA0000000) yields 0, a store there changes no memory, and
\* the word at the exception vector 0x80000180, like every word fetched in
\* that range, is 0 whatever RAM contains.
C38_Kseg0Unmapped ==
    [][StepTaken
         => /\ (IsPlainLoad(Fetched) /\ InKseg0(EffAddr(Here, Fetched)))
                 => cpu'.registers[Rt(Fetched)] = Zero
            /\ (IsStore(Fetched) /\ InKseg0(EffAddr(Here, Fetched)))
                 => memory' = memory
            /\ InKseg0(cpu.pc) => Fetched = Zero
            /\ read_word(memory', EXCEPTION_VECTOR) = Zero]_vars

\* C38 for accesses that lie in [0x80000000, 0xA0000000) with all their
\* bytes (every aligned access there does): loads yield 0, stores change
\* no memory, and the word at the exception vector 0x80000180, like every
\* word fetched in that range, is 0 whatever RAM contains.
C38_Kseg0UnmappedWhole ==
    [][StepTaken
         => /\ ( /\ IsPlainLoad(Fetched)
                 /\ \A k \in 0..(AccessWidth(Fetched) - 1) :
                       InKseg0(AddN(EffAddr(Here, Fetched), k)) )
                 => cpu'.registers[Rt(Fetched)] = Zero
            /\ ( /\ IsStore(Fetched)
                 /\ \A k \in 0..(AccessWidth(Fetched) - 1) :
                       InKseg0(AddN(EffAddr(Here, Fetched), k)) )
                 => memory' = memory
            /\ InKseg0(cpu.pc) => Fetched = Zero
            /\ read_word(memory', EXCEPTION_VECTOR) = Zero]_vars

\* the step after JR r6 has fetched at the exception vector and executed
\* the word 0 there, while RAM holds 0x44 at offset 0x180
C38_Witness ==
    /\ LastIsStep
    /\ trace[Len(trace)].pc = EXCEPTION_VECTOR
    /\ LastInstr = Zero
    /\ read_word(memory, W(0, \h0180)) = W(0, \h44)
    /\ read_word(memory, W(\hA000, \h0180)) = W(0, \h44)

(***************************************************************************)
(* Comparisons with an immediate                                           *)
(***************************************************************************)
CompareMenu ==
    { EncI(op, rs, 4, imm) : op \in {10, 11}, rs \in 0..3,
                             imm \in {1, \h7FFF, \h8000, \hFFFF} }

\* r1 = 0x44, r2 = 0x80000000, r3 = 0xFFFFFFFF
InitCompare == InitWith(<<ORI_r1, LUI_r2, ADDIU_r3>>, CompareMenu, 1)
SpecCompare == InitCompare /\ [][SeqNext]_vars

\* the 32-bit value r and the 16-bit immediate i as signed numbers
Signed32(r) == IF r[1] >= \h8000 THEN W(r[1] - B16, r[2]) ELSE r
Signed16(i) == IF i >= \h8000 THEN W(-1, i) ELSE W(0, i)

\* C39: SLTI sets rt to 1 if signed(rs) < signed(sign-extend(i)) and to 0
\* otherwise; SLTIU sets rt to 1 if rs < sign-extend(i) mod 2^32 as
\* unsigned values and to 0 otherwise.
C39_SetOnLessThanImmediate ==
    [][(StepTaken /\ Rt(Fetched) # 0)
         => /\ Opcode(Fetched) = 10
               => cpu'.registers[Rt(Fetched)] =
                    IF Lt(Signed32(R(Here, Rs(Fetched))), Signed16(Imm(Fetched)))
                    THEN One ELSE Zero
            /\ Opcode(Fetched) = 11
               => cpu'.registers[Rt(Fetched)] =
                    IF Lt(R(Here, Rs(Fetched)),
                          Mask32(W(Signed16(Imm(Fetched))[1] + B16, Imm(Fetched))))
                    THEN One ELSE Zero]_vars

(***************************************************************************)
(* Signed division                                                         *)
(***************************************************************************)
ADDIU_r5 == EncI(9, 0, 5, \hFFF9)
ORI_r6 == EncI(13, 0, 6, 2)

\* r1 = 0x44, r3 = -1, r5 = -7, r6 = 2
SignedDivPrefix == <<ORI_r1, ADDIU_r3, ADDIU_r5, ORI_r6>>

\* DIV and DDIV
SignedDivMenu ==
    { EncR(rs, rt, 0, 0, f) : rs \in {1, 3, 5, 6}, rt \in {1, 3, 5, 6}, f \in {26, 30} }

InitSignedDiv == InitWith(SignedDivPrefix, SignedDivMenu, 1)
SpecSignedDiv == InitSignedDiv /\ [][SeqNext]_vars

\* a 32-bit value as a signed number
SignedInt(r) ==
    IF r[1] >= \h8000 THEN (r[1] - B16) * B16 + r[2] ELSE r[1] * B16 + r[2]

Magnitude(n) == IF n < 0 THEN 0 - n ELSE n

\* C40: after DIV or DDIV with a non-zero divisor, signed(LO) * signed(rt)
\* + signed(HI) = signed(rs), |HI| < |rt|, and HI is zero or carries the
\* sign of the dividend, so that LO is the quotient rounded toward zero.
C40_SignedDivision ==
    [][(StepTaken /\ Opcode(Fetched) = 0 /\ Funct(Fetched) \in {26, 30}
          /\ R(Here, Rt(Fetched)) # Zero)
         => LET a == SignedInt(R(Here, Rs(Fetched)))
                b == SignedInt(R(Here, Rt(Fetched)))
                q == SignedInt(cpu'.lo)
                r == SignedInt(cpu'.hi)
            IN /\ q * b + r = a
               /\ Magnitude(r) < Magnitude(b)
               /\ r = 0 \/ ((r < 0) <=> (a < 0))]_vars

====
